---- MODULE Spec2Model ----
(***************************************************************************)
(* A model of the goiter package: the Iterable containers (IterStrings,    *)
(* pairs, iterInts), the internal iter engine (impl.go) and the Iter       *)
(* facade (iter.go).                                                       *)
(*                                                                         *)
(* The heap is a sequence of container objects, addressed by position.     *)
(* impls is a sequence of *iter structs {item, size}; an Iter facade is a  *)
(* pointer to one of them.  Every action is one facade call, run to        *)
(* completion (the package is synchronous and eager).                      *)
(*                                                                         *)
(* A Go interface{} value is modelled as an option: <<>> is nil, <<v>> is  *)
(* the value v.                                                            *)
(***************************************************************************)
EXTENDS Integers, Sequences, FiniteSets, TLC

\* ---- bounds of the model ----
MaxLen == 2        \* longest slice handed to a constructor
MaxOther == 1      \* longest slice of the second container of Spec
MaxObjs == 3       \* containers alive in one behaviour
MaxIters == 3      \* iter structs alive in one behaviour
MaxN == 2          \* largest argument of Advance / Nth
MaxOver == 1       \* failed Next calls tolerated past the end of a container
MaxItSize == 3     \* cap of the iter.size counter

\* ---- element alphabets ----
Strs == {"a", "1"}
Ints == {1, 2}

RECURSIVE SeqsUpTo(_, _)
SeqsUpTo(S, n) ==
  IF n = 0 THEN {<<>>}
  ELSE LET shorter == SeqsUpTo(S, n - 1)
       IN shorter \cup {Append(s, e) : s \in {t \in shorter : Len(t) = n - 1}, e \in S}

Nil == <<>>
Some(v) == <<v>>

\* ---- the containers ----------------------------------------------------

\* FromStrings(s): &IterStrings{idx: -1, data: s, size: len(s)}
FromStrings(s) == [kind |-> "strings", idx |-> -1, data |-> s, size |-> Len(s)]

\* NewIterStrings(): &IterStrings{idx: -1}
NewIterStrings == [kind |-> "strings", idx |-> -1, data |-> <<>>, size |-> 0]

\* newPairs(): &pairs{idx: -1}
newPairs == [kind |-> "pairs", idx |-> -1, data |-> <<>>, size |-> 0]

\* &iterInts{d, -1}; iterInts has no size field
NewInts(d) == [kind |-> "ints", data |-> d, idx |-> -1]

\* a container of strings supplied by the caller that implements Iterable
\* (New, Add, Next) and none of the optional interfaces
FromBare(s) == [kind |-> "bare", idx |-> -1, data |-> s, size |-> Len(s)]

\* a container of strings supplied by the caller, as the bare one, whose New
\* returns an error
FromNoNew(s) == [kind |-> "nonew", idx |-> -1, data |-> s, size |-> Len(s)]

\* does o.New() return a non-nil error
NewFails(o) == o.kind = "nonew"

\* Pair{X, Y}
Pair(x, y) == [X |-> x, Y |-> y]

\* a New that hands out the receiver's elements with the cursor reset
NewKeepsData(o) == [o EXCEPT !.idx = -1]

\* the Iterable.New method of each container
New(o) ==
  CASE o.kind = "strings" -> NewIterStrings
    [] o.kind = "pairs"   -> newPairs
    [] o.kind = "ints"    -> NewInts(<<>>)
    [] o.kind = "bare"    -> FromBare(<<>>)

\* the element type a container's Add asserts
ElemKind(o) == IF o.kind \in {"bare", "nonew"} THEN "strings" ELSE o.kind

\* optional capabilities, by the methods each type defines; the caller's
\* bare container defines none of them
IsRewinder(o) == o.kind \in {"strings", "pairs", "ints"}
IsResetter(o) == o.kind \in {"strings", "pairs", "ints"}
IsEnumerator(o) == o.kind \in {"strings", "pairs", "ints"}

\* a Next that leaves the cursor where it is when no element is left
NextNoMove(o) ==
  IF o.idx + 1 < Len(o.data)
  THEN [o |-> [o EXCEPT !.idx = @ + 1], v |-> Some(o.data[o.idx + 2]), more |-> TRUE]
  ELSE [o |-> o, v |-> Nil, more |-> FALSE]

\* a Next that, finding no element left, puts the cursor back at the start
NextWraps(o) ==
  IF o.idx + 1 < Len(o.data)
  THEN [o |-> [o EXCEPT !.idx = @ + 1], v |-> Some(o.data[o.idx + 2]), more |-> TRUE]
  ELSE [o |-> [o EXCEPT !.idx = -1], v |-> Nil, more |-> FALSE]

\* a Next that never reports the end of a container that holds an element:
\* it stays on the last one
NextOnLast(o) ==
  IF Len(o.data) = 0 THEN [o |-> [o EXCEPT !.idx = @ + 1], v |-> Nil, more |-> FALSE]
  ELSE LET i == IF o.idx + 1 < Len(o.data) THEN o.idx + 1 ELSE Len(o.data) - 1
       IN [o |-> [o EXCEPT !.idx = i], v |-> Some(o.data[i + 1]), more |-> TRUE]

\* Next: the cursor is incremented first, then compared with the size
\* (IterStrings, pairs) or with len(data)-1 (iterInts).
\* Result: the container afterwards, the value, and the more flag.
Next(o) ==
  LET need == o.idx + 1
      o2 == [o EXCEPT !.idx = need]
  IN IF o.kind = "ints"
     THEN IF need > Len(o.data) - 1
          THEN [o |-> o2, v |-> Nil, more |-> FALSE]
          ELSE [o |-> o2, v |-> Some(o.data[need + 1]), more |-> TRUE]
     ELSE IF need < o.size
          THEN [o |-> o2, v |-> Some(o.data[need + 1]), more |-> TRUE]
          ELSE [o |-> o2, v |-> Nil, more |-> FALSE]

\* Enumerate: as Next, also returning the index (-1 when exhausted)
Enumerate(o) ==
  LET r == Next(o)
  IN [o |-> r.o, i |-> IF r.more THEN r.o.idx ELSE -1, v |-> r.v, more |-> r.more]

\* a Rewind that puts the cursor on the first element
RewindOnFirst(o) == [o EXCEPT !.idx = 0]

Rewind(o) == [o EXCEPT !.idx = -1]

Reset(o) ==
  IF o.kind = "ints"
  THEN [Rewind(o) EXCEPT !.data = <<>>]
  ELSE [Rewind(o) EXCEPT !.data = <<>>, !.size = 0]

\* an Add that puts the element in front
AddFirst(o, x) ==
  IF o.kind = "ints"
  THEN [o EXCEPT !.data = <<x>> \o @]
  ELSE [o EXCEPT !.data = <<x>> \o @, !.size = @ + 1]

Add(o, x) ==
  IF o.kind = "ints"
  THEN [o EXCEPT !.data = Append(@, x)]
  ELSE [o EXCEPT !.data = Append(@, x), !.size = @ + 1]

\* a To that hands out only the elements not yet visited
ToRest(o) == IF o.idx + 2 > Len(o.data) THEN <<>> ELSE SubSeq(o.data, o.idx + 2, Len(o.data))

\* To: "returns the underlying []*Pair back", the slice itself
To(o) == o.data

\* the containers that define To
HasTo(o) == o.kind \in {"strings", "pairs"}

\* ---- the functions a caller passes in ----------------------------------

IsNumeric(s) == s \in {"1", "2"}
ToUpper(s) == IF s = "a" THEN "A" ELSE s

FilterFuncs == {"always", "never", "sel"}
\* FilterFunc: "sel" is the numeric test of the tests on strings, v > 1 on ints
ApplyFilter(f, kind, x) ==
  CASE f = "always" -> TRUE
    [] f = "never"  -> FALSE
    [] f = "sel"    -> CASE kind = "strings" -> IsNumeric(x)
                         [] kind = "bare"    -> IsNumeric(x)
                         [] kind = "nonew"   -> IsNumeric(x)
                         [] kind = "ints"    -> x > 1
                         [] kind = "pairs"   -> FALSE

MapFuncs == {"id", "upper"}
\* MapFunc: "upper" is strings.ToUpper on strings, +1 on ints
ApplyMap(f, kind, x) ==
  CASE f = "id"    -> x
    [] f = "upper" -> CASE kind = "strings" -> ToUpper(x)
                        [] kind = "bare"    -> ToUpper(x)
                        [] kind = "nonew"   -> ToUpper(x)
                        [] kind = "ints"    -> x + 1
                        [] kind = "pairs"   -> x

EveryFuncs == {"id", "even"}
\* EveryFunc: "even" changes the elements at even indexes only
ApplyEvery(f, kind, i, x) ==
  CASE f = "id"   -> x
    [] f = "even" -> IF i % 2 = 0 THEN ApplyMap("upper", kind, x) ELSE x

\* the default value handed to Or
Default(kind) ==
  CASE kind = "strings" -> "d"
    [] kind = "bare"    -> "d"
    [] kind = "nonew"   -> "d"
    [] kind = "ints"    -> 0
    [] kind = "pairs"   -> Pair("d", 0)

\* ConvertFunc: returns (value, err); ok is err == nil
\* "atoi" is strconv.Atoi, "itoa" is Sprintf("%d"), "num" keeps a numeric
\* string and fails on any other
ConvertFuncs == {"atoi", "itoa", "num"}
ConvFrom(c) == IF c = "itoa" THEN "ints" ELSE "strings"
ConvTo(c) == IF c = "atoi" THEN "ints" ELSE "strings"
Atoi(s) == CASE s = "1" -> [v |-> 1, ok |-> TRUE]
             [] s = "2" -> [v |-> 2, ok |-> TRUE]
             [] OTHER   -> [v |-> 0, ok |-> FALSE]
Itoa(i) == CASE i = 0 -> "0" [] i = 1 -> "1" [] i = 2 -> "2" [] i = 3 -> "3" [] OTHER -> "n"
ApplyConvert(c, x) ==
  CASE c = "atoi" -> Atoi(x)
    [] c = "itoa" -> [v |-> Itoa(x), ok |-> TRUE]
    [] c = "num"  -> [v |-> x, ok |-> IsNumeric(x)]

\* ---- state ---------------------------------------------------------------

\* heap:  the containers, addressed by position
\* impls: the *iter structs; a facade (Iter) is a pointer to one of them
\* ret:   the last facade call: its name, arguments and results
\* calls: the calls in flight, one record per goroutine: the Next calls of
\*        the goroutines that share a container, or the facade call whose
\*        loop the only goroutine is running; empty between calls
VARIABLES heap, impls, ret, calls
vars == <<heap, impls, ret, calls>>

\* newIter(item): &iter{item: item}
newIter(item) == [item |-> item, size |-> 0]

\* self: the receiver; arg: the other container; out: the facade returned;
\* pre: the receiver's cursor before the call; preArg: the other's cursor;
\* a call that panicked is recorded with op "panic" and its name in panic
NoRet == [op |-> "none", self |-> 0, n |-> 0, idx |-> 0, more |-> FALSE,
          val |-> Nil, cnt |-> 0, out |-> 0, arg |-> 0, f |-> "", seen |-> <<>>,
          pre |-> -1, preArg |-> -1, panic |-> ""]

\* the caps that keep the counters finite
Bounded(h, m) ==
  /\ Len(h) <= MaxObjs
  /\ Len(m) <= MaxIters
  /\ \A i \in 1..Len(h) : h[i].idx <= Len(h[i].data) + MaxOver
  /\ \A i \in 1..Len(m) : m[i].size <= MaxItSize

\* ---- the engine (impl.go) ----------------------------------------------

\* the outcome of a call that panics on the heap h: panic(err) after a failed
\* New, or a failed type assertion it.item.(Enumerator)
Panicked(h) == [h |-> h, it |-> newIter(0), panic |-> TRUE, reused |-> FALSE,
                i |-> -1, v |-> Nil, more |-> FALSE]

\* advanceBy(n): the loop runs on the heap h and the iter struct it
RECURSIVE advanceLoop(_, _, _, _, _)
advanceLoop(h, it, i, n, more) ==
  IF i < n
  THEN LET r == Next(h[it.item])
           h2 == [h EXCEPT ![it.item] = r.o]
       IN IF ~r.more
          THEN [h |-> h2, it |-> it, more |-> FALSE]
          ELSE advanceLoop(h2, [it EXCEPT !.size = @ + 1], i + 1, n, TRUE)
  ELSE [h |-> h, it |-> it, more |-> more]

\* advanceBy with "var more = true"
advanceByMoreSet(h, it, n) ==
  LET r == advanceLoop(h, it, 0, n, TRUE)
      idx == r.it.size - 1
  IN [h |-> r.h, it |-> r.it, idx |-> IF idx <= 0 THEN 0 ELSE idx, more |-> r.more]

advanceBy(h, it, n) ==
  LET r == advanceLoop(h, it, 0, n, FALSE)
      idx == r.it.size - 1
  IN [h |-> r.h, it |-> r.it, idx |-> IF idx <= 0 THEN 0 ELSE idx, more |-> r.more]

\* count(): advanceBy(1) until more is false; the result is it.size before
\* the deferred Rewind and size reset
RECURSIVE countLoop(_, _)
countLoop(h, it) ==
  LET r == advanceBy(h, it, 1)
  IN IF r.more THEN countLoop(r.h, r.it) ELSE [h |-> r.h, it |-> r.it]

count(h, it) ==
  LET r == countLoop(h, it)
      rew == IsRewinder(r.h[it.item])
  IN [h |-> IF rew THEN [r.h EXCEPT ![it.item] = Rewind(@)] ELSE r.h,
      it |-> IF rew THEN [r.it EXCEPT !.size = 0] ELSE r.it,
      cnt |-> r.it.size]

\* Iter.Nth without the deferred Rewind
NthNoRewind(h, it, n) ==
  LET a == advanceBy(h, it, n)
      r == Next(a.h[it.item])
  IN [h |-> [a.h EXCEPT ![it.item] = r.o], it |-> a.it, val |-> r.v]

\* Iter.Nth(n): advanceBy(n), one more Next, then the deferred Rewind
Nth(h, it, n) ==
  LET a == advanceBy(h, it, n)
      r == Next(a.h[it.item])
      h2 == [a.h EXCEPT ![it.item] = r.o]
  IN [h |-> IF IsRewinder(r.o) THEN [h2 EXCEPT ![it.item] = Rewind(@)] ELSE h2,
      it |-> a.it, val |-> r.v]

\* each(f): f sees every element Next yields; seen records the calls of f
RECURSIVE eachLoop(_, _, _)
eachLoop(h, item, seen) ==
  LET r == Next(h[item])
      h2 == [h EXCEPT ![item] = r.o]
  IN IF ~r.more THEN [h |-> h2, seen |-> seen]
     ELSE eachLoop(h2, item, Append(seen, r.v[1]))

\* each without the deferred Rewind
eachNoRewind(h, it) ==
  LET r == eachLoop(h, it.item, <<>>)
  IN [h |-> r.h, seen |-> r.seen]

each(h, it) ==
  LET r == eachLoop(h, it.item, <<>>)
  IN [h |-> IF IsRewinder(r.h[it.item]) THEN [r.h EXCEPT ![it.item] = Rewind(@)] ELSE r.h,
      seen |-> r.seen]

\* filter whose loop keeps what the predicate rejects
RECURSIVE filterLoopNegated(_, _, _, _)
filterLoopNegated(h, src, dst, f) ==
  LET r == Next(h[src])
      h2 == [h EXCEPT ![src] = r.o]
  IN IF ~r.more THEN h2
     ELSE IF ApplyFilter(f, h2[src].kind, r.v[1])
          THEN filterLoopNegated(h2, src, dst, f)
          ELSE filterLoopNegated([h2 EXCEPT ![dst] = Add(@, r.v[1])], src, dst, f)

\* filter(f): newitem is the container at position dst
RECURSIVE filterLoop(_, _, _, _)
filterLoop(h, src, dst, f) ==
  LET r == Next(h[src])
      h2 == [h EXCEPT ![src] = r.o]
  IN IF ~r.more THEN h2
     ELSE IF ApplyFilter(f, h2[src].kind, r.v[1])
          THEN filterLoop([h2 EXCEPT ![dst] = Add(@, r.v[1])], src, dst, f)
          ELSE filterLoop(h2, src, dst, f)

\* filter that ignores the error of New and fails on the nil newitem only
\* after a Next
filterPanicLate(h, it, f) ==
  LET dst == Len(h) + 1
  IN IF NewFails(h[it.item])
     THEN [Panicked(h) EXCEPT !.h = [h EXCEPT ![it.item] = Next(@).o]]
     ELSE [h |-> filterLoop(Append(h, New(h[it.item])), it.item, dst, f), it |-> newIter(dst),
           panic |-> FALSE]

filter(h, it, f) ==
  LET dst == Len(h) + 1
  IN IF NewFails(h[it.item]) THEN Panicked(h)
     ELSE [h |-> filterLoop(Append(h, New(h[it.item])), it.item, dst, f), it |-> newIter(dst),
           panic |-> FALSE]

\* apply that adds the element and not f(element)
RECURSIVE applyLoopNoTransform(_, _, _, _)
applyLoopNoTransform(h, src, dst, f) ==
  LET r == Next(h[src])
      h2 == [h EXCEPT ![src] = r.o]
  IN IF ~r.more THEN h2
     ELSE applyLoopNoTransform([h2 EXCEPT ![dst] = Add(@, r.v[1])], src, dst, f)

\* apply(f), the engine of Map
RECURSIVE applyLoop(_, _, _, _)
applyLoop(h, src, dst, f) ==
  LET r == Next(h[src])
      h2 == [h EXCEPT ![src] = r.o]
  IN IF ~r.more THEN h2
     ELSE applyLoop([h2 EXCEPT ![dst] = Add(@, ApplyMap(f, h2[src].kind, r.v[1]))], src, dst, f)

apply(h, it, f) ==
  LET dst == Len(h) + 1
  IN IF NewFails(h[it.item]) THEN Panicked(h)
     ELSE [h |-> applyLoop(Append(h, New(h[it.item])), it.item, dst, f), it |-> newIter(dst),
           panic |-> FALSE]

\* every that hands f a one-based index
RECURSIVE everyLoopOneBased(_, _, _, _)
everyLoopOneBased(h, src, dst, f) ==
  LET r == Enumerate(h[src])
      h2 == [h EXCEPT ![src] = r.o]
  IN IF ~r.more THEN h2
     ELSE everyLoopOneBased(
            [h2 EXCEPT ![dst] = Add(@, ApplyEvery(f, h2[src].kind, r.i + 1, r.v[1]))],
            src, dst, f)

\* every(f): the source is driven through Enumerate
RECURSIVE everyLoop(_, _, _, _)
everyLoop(h, src, dst, f) ==
  LET r == Enumerate(h[src])
      h2 == [h EXCEPT ![src] = r.o]
  IN IF ~r.more THEN h2
     ELSE everyLoop([h2 EXCEPT ![dst] = Add(@, ApplyEvery(f, h2[src].kind, r.i, r.v[1]))],
                    src, dst, f)

every(h, it, f) ==
  LET dst == Len(h) + 1
  IN IF NewFails(h[it.item]) \/ ~IsEnumerator(h[it.item]) THEN Panicked(h)
     ELSE [h |-> everyLoop(Append(h, New(h[it.item])), it.item, dst, f), it |-> newIter(dst),
           panic |-> FALSE]

\* or that drops a rejected element instead of adding the default
RECURSIVE orLoopDrop(_, _, _, _, _)
orLoopDrop(h, src, dst, f, this) ==
  LET r == Next(h[src])
      h2 == [h EXCEPT ![src] = r.o]
  IN IF ~r.more THEN h2
     ELSE IF ApplyFilter(f, h2[src].kind, r.v[1])
          THEN orLoopDrop([h2 EXCEPT ![dst] = Add(@, r.v[1])], src, dst, f, this)
          ELSE orLoopDrop(h2, src, dst, f, this)

\* or(f, this)
RECURSIVE orLoop(_, _, _, _, _)
orLoop(h, src, dst, f, this) ==
  LET r == Next(h[src])
      h2 == [h EXCEPT ![src] = r.o]
  IN IF ~r.more THEN h2
     ELSE IF ApplyFilter(f, h2[src].kind, r.v[1])
          THEN orLoop([h2 EXCEPT ![dst] = Add(@, r.v[1])], src, dst, f, this)
          ELSE orLoop([h2 EXCEPT ![dst] = Add(@, this)], src, dst, f, this)

or(h, it, f, this) ==
  LET dst == Len(h) + 1
  IN IF NewFails(h[it.item]) THEN Panicked(h)
     ELSE [h |-> orLoop(Append(h, New(h[it.item])), it.item, dst, f, this),
           it |-> newIter(dst), panic |-> FALSE]

\* a conversion loop that stops at the first failed conversion
RECURSIVE convertLoopAbort(_, _, _, _)
convertLoopAbort(h, src, dst, as) ==
  LET r == Next(h[src])
      h2 == [h EXCEPT ![src] = r.o]
      c == ApplyConvert(as, r.v[1])
  IN IF ~r.more THEN h2
     ELSE IF c.ok
          THEN convertLoopAbort([h2 EXCEPT ![dst] = Add(@, c.v)], src, dst, as)
          ELSE h2

\* the conversion loop shared by into and from: drain src, Add to dst what
\* converts without error
RECURSIVE convertLoop(_, _, _, _)
convertLoop(h, src, dst, as) ==
  LET r == Next(h[src])
      h2 == [h EXCEPT ![src] = r.o]
      c == ApplyConvert(as, r.v[1])
  IN IF ~r.more THEN h2
     ELSE IF c.ok
          THEN convertLoop([h2 EXCEPT ![dst] = Add(@, c.v)], src, dst, as)
          ELSE convertLoop(h2, src, dst, as)

\* into that wraps the receiver's item instead of target
intoSelf(h, it, target, as) ==
  LET h1 == IF IsResetter(h[target]) THEN [h EXCEPT ![target] = Reset(@)] ELSE h
  IN [h |-> convertLoop(h1, it.item, target, as), it |-> newIter(it.item), panic |-> FALSE]

\* an into that resets no target but the receiver's own sequence
intoNoReset(h, it, target, as) ==
  LET h1 == IF IsResetter(h[target]) /\ target = it.item
            THEN [h EXCEPT ![target] = Reset(@)] ELSE h
  IN [h |-> convertLoop(h1, it.item, target, as), it |-> newIter(target), panic |-> FALSE]

\* into(target, as): the result is a new iter struct over target
into(h, it, target, as) ==
  LET h1 == IF IsResetter(h[target]) THEN [h EXCEPT ![target] = Reset(@)] ELSE h
  IN [h |-> convertLoop(h1, it.item, target, as), it |-> newIter(target), panic |-> FALSE]

\* from that reuses a Resetter item without calling Reset
fromNoReset(h, it, other, as) ==
  IF IsResetter(h[it.item])
  THEN [h |-> convertLoop(h, other, it.item, as), it |-> it, reused |-> TRUE,
        panic |-> FALSE]
  ELSE IF NewFails(h[it.item]) THEN Panicked(h)
  ELSE LET dst == Len(h) + 1
       IN [h |-> convertLoop(Append(h, New(h[it.item])), other, dst, as),
           it |-> newIter(dst), reused |-> FALSE, panic |-> FALSE]

\* from(other, as): a Resetter item is reset and the receiver itself is
\* returned (reused = TRUE); otherwise a new item and a new iter struct
from(h, it, other, as) ==
  IF IsResetter(h[it.item])
  THEN [h |-> convertLoop([h EXCEPT ![it.item] = Reset(@)], other, it.item, as),
        it |-> it, reused |-> TRUE, panic |-> FALSE]
  ELSE IF NewFails(h[it.item]) THEN Panicked(h)
  ELSE LET dst == Len(h) + 1
       IN [h |-> convertLoop(Append(h, New(h[it.item])), other, dst, as),
           it |-> newIter(dst), reused |-> FALSE, panic |-> FALSE]

\* first whose loop does not break on a match
RECURSIVE firstLoopNoBreak(_, _, _)
firstLoopNoBreak(h, item, f) ==
  LET r == Enumerate(h[item])
      h2 == [h EXCEPT ![item] = r.o]
  IN IF ~r.more THEN [h |-> h2, i |-> r.i, v |-> r.v, more |-> r.more]
     ELSE firstLoopNoBreak(h2, item, f)

\* first(f): stops at the first match; returns what Enumerate returned last
RECURSIVE firstLoop(_, _, _)
firstLoop(h, item, f) ==
  LET r == Enumerate(h[item])
      h2 == [h EXCEPT ![item] = r.o]
  IN IF ~r.more THEN [h |-> h2, i |-> r.i, v |-> r.v, more |-> r.more]
     ELSE IF ApplyFilter(f, h2[item].kind, r.v[1])
          THEN [h |-> h2, i |-> r.i, v |-> r.v, more |-> r.more]
          ELSE firstLoop(h2, item, f)

\* first that calls Next before it asserts the Enumerator
firstAssertLate(h, it, f) ==
  IF ~IsEnumerator(h[it.item])
  THEN [Panicked(h) EXCEPT !.h = [h EXCEPT ![it.item] = Next(@).o]]
  ELSE LET r == firstLoop(h, it.item, f)
       IN [h |-> r.h, i |-> r.i, v |-> r.v, more |-> r.more, panic |-> FALSE]

\* a first that rewinds the item when the search is over
firstRewinds(h, it, f) ==
  IF ~IsEnumerator(h[it.item]) THEN Panicked(h)
  ELSE LET r == firstLoop(h, it.item, f)
       IN [h |-> [r.h EXCEPT ![it.item] = Rewind(@)],
           i |-> r.i, v |-> r.v, more |-> r.more, panic |-> FALSE]

first(h, it, f) ==
  IF ~IsEnumerator(h[it.item]) THEN Panicked(h)
  ELSE LET r == firstLoop(h, it.item, f)
       IN [h |-> r.h, i |-> r.i, v |-> r.v, more |-> r.more, panic |-> FALSE]

\* last that keeps the earliest match
RECURSIVE lastLoopKeepFirst(_, _, _, _, _, _)
lastLoopKeepFirst(h, item, f, idx, seen, found) ==
  LET r == Enumerate(h[item])
      h2 == [h EXCEPT ![item] = r.o]
  IN IF ~r.more THEN [h |-> h2, i |-> idx, v |-> seen, more |-> found]
     ELSE IF ApplyFilter(f, h2[item].kind, r.v[1]) /\ ~found
          THEN lastLoopKeepFirst(h2, item, f, r.i, r.v, TRUE)
          ELSE lastLoopKeepFirst(h2, item, f, idx, seen, found)

\* last(f): scans to the end, remembering the latest match
RECURSIVE lastLoop(_, _, _, _, _, _)
lastLoop(h, item, f, idx, seen, found) ==
  LET r == Enumerate(h[item])
      h2 == [h EXCEPT ![item] = r.o]
  IN IF ~r.more THEN [h |-> h2, i |-> idx, v |-> seen, more |-> found]
     ELSE IF ApplyFilter(f, h2[item].kind, r.v[1])
          THEN lastLoop(h2, item, f, r.i, r.v, TRUE)
          ELSE lastLoop(h2, item, f, idx, seen, found)

last(h, it, f) ==
  IF ~IsEnumerator(h[it.item]) THEN Panicked(h)
  ELSE LET r == lastLoop(h, it.item, f, -1, Nil, FALSE)
       IN [h |-> r.h, i |-> r.i, v |-> r.v, more |-> r.more, panic |-> FALSE]

\* a drain that stops after the first element
drainLoopOne(h, src, dst) ==
  LET r == Next(h[src])
      h2 == [h EXCEPT ![src] = r.o]
  IN IF ~r.more THEN h2 ELSE [h2 EXCEPT ![dst] = Add(@, r.v[1])]

\* chain(other): drain the item, then other, into one new container
RECURSIVE drainLoop(_, _, _)
drainLoop(h, src, dst) ==
  LET r == Next(h[src])
      h2 == [h EXCEPT ![src] = r.o]
  IN IF ~r.more THEN h2
     ELSE drainLoop([h2 EXCEPT ![dst] = Add(@, r.v[1])], src, dst)

\* chain that drains other before the item
chainOtherFirst(h, it, other) ==
  LET dst == Len(h) + 1
      h1 == drainLoop(Append(h, New(h[it.item])), other, dst)
  IN IF NewFails(h[it.item]) THEN Panicked(h)
     ELSE [h |-> drainLoop(h1, it.item, dst), it |-> newIter(dst), panic |-> FALSE]

chain(h, it, other) ==
  LET dst == Len(h) + 1
      h1 == drainLoop(Append(h, New(h[it.item])), it.item, dst)
  IN IF NewFails(h[it.item]) THEN Panicked(h)
     ELSE [h |-> drainLoop(h1, other, dst), it |-> newIter(dst), panic |-> FALSE]

\* zip that builds Pair{v2, v1}
RECURSIVE zipLoopSwapped(_, _, _, _)
zipLoopSwapped(h, src, other, dst) ==
  LET r1 == Next(h[src])
      h1 == [h EXCEPT ![src] = r1.o]
      r2 == Next(h1[other])
      h2 == [h1 EXCEPT ![other] = r2.o]
  IN IF ~r1.more \/ ~r2.more THEN h2
     ELSE zipLoopSwapped([h2 EXCEPT ![dst] = Add(@, Pair(r2.v[1], r1.v[1]))], src, other, dst)

\* a zip loop that asks other for an element only when src has given one
RECURSIVE zipLoopLazy(_, _, _, _)
zipLoopLazy(h, src, other, dst) ==
  LET r1 == Next(h[src])
      h1 == [h EXCEPT ![src] = r1.o]
      r2 == Next(h1[other])
      h2 == [h1 EXCEPT ![other] = r2.o]
  IN IF ~r1.more THEN h1
     ELSE IF ~r2.more THEN h2
     ELSE zipLoopLazy([h2 EXCEPT ![dst] = Add(@, Pair(r1.v[1], r2.v[1]))], src, other, dst)

\* zip(other): both Next calls are made in every round, then the test
RECURSIVE zipLoop(_, _, _, _)
zipLoop(h, src, other, dst) ==
  LET r1 == Next(h[src])
      h1 == [h EXCEPT ![src] = r1.o]
      r2 == Next(h1[other])
      h2 == [h1 EXCEPT ![other] = r2.o]
  IN IF ~r1.more \/ ~r2.more THEN h2
     ELSE zipLoop([h2 EXCEPT ![dst] = Add(@, Pair(r1.v[1], r2.v[1]))], src, other, dst)

zip(h, it, other) ==
  LET dst == Len(h) + 1
  IN [h |-> zipLoop(Append(h, newPairs), it.item, other, dst), it |-> newIter(dst),
      panic |-> FALSE]

\* ---- the facade calls (iter.go) ----------------------------------------

Ret(op, s) == [NoRet EXCEPT !.op = op, !.self = s, !.pre = heap[impls[s].item].idx]
Ret2(op, s, o) == [Ret(op, s) EXCEPT !.arg = o, !.preArg = heap[o].idx]
\* the record of a call of op that panicked
RetPanic(op, s) == [Ret("panic", s) EXCEPT !.panic = op]

\* the caller, who built the container o, calls o.Next() on it
NextOn(o) ==
  LET r == Next(heap[o])
  IN /\ heap' = [heap EXCEPT ![o] = r.o]
     /\ impls' = impls
     /\ calls' = calls
     /\ ret' = [NoRet EXCEPT !.op = "next", !.arg = o, !.preArg = heap[o].idx,
                              !.val = r.v, !.more = r.more]
     /\ Bounded(heap', impls')

Advance(s, n) ==
  LET r == advanceBy(heap, impls[s], n)
  IN /\ heap' = r.h
     /\ impls' = [impls EXCEPT ![s] = r.it]
     /\ calls' = calls
     /\ ret' = [Ret("advance", s) EXCEPT !.n = n, !.idx = r.idx, !.more = r.more]
     /\ Bounded(heap', impls')

Count(s) ==
  LET r == count(heap, impls[s])
  IN /\ r.cnt <= MaxItSize
     /\ heap' = r.h
     /\ impls' = [impls EXCEPT ![s] = r.it]
     /\ calls' = calls
     /\ ret' = [Ret("count", s) EXCEPT !.cnt = r.cnt]
     /\ Bounded(heap', impls')

NthCall(s, n) ==
  LET r == Nth(heap, impls[s], n)
  IN /\ heap' = r.h
     /\ impls' = [impls EXCEPT ![s] = r.it]
     /\ calls' = calls
     /\ ret' = [Ret("nth", s) EXCEPT !.n = n, !.val = r.val]
     /\ Bounded(heap', impls')

Each(s) ==
  LET r == each(heap, impls[s])
  IN /\ heap' = r.h
     /\ impls' = impls
     /\ calls' = calls
     /\ ret' = [Ret("each", s) EXCEPT !.seen = r.seen]
     /\ Bounded(heap', impls')

First(s, f) ==
  LET r == first(heap, impls[s], f)
  IN /\ heap' = r.h
     /\ impls' = impls
     /\ calls' = calls
     /\ ret' = IF r.panic THEN RetPanic("first", s)
               ELSE [Ret("first", s) EXCEPT
                       !.f = f, !.idx = r.i, !.val = r.v, !.more = r.more]
     /\ Bounded(heap', impls')

Last(s, f) ==
  LET r == last(heap, impls[s], f)
  IN /\ heap' = r.h
     /\ impls' = impls
     /\ calls' = calls
     /\ ret' = IF r.panic THEN RetPanic("last", s)
               ELSE [Ret("last", s) EXCEPT
                       !.f = f, !.idx = r.i, !.val = r.v, !.more = r.more]
     /\ Bounded(heap', impls')

\* a combinator that returns a facade over a new iter struct, or panics
Produce(op, s, f, r) ==
  /\ heap' = r.h
  /\ impls' = IF r.panic THEN impls ELSE Append(impls, r.it)
  /\ calls' = calls
  /\ ret' = IF r.panic THEN RetPanic(op, s)
            ELSE [Ret(op, s) EXCEPT !.f = f, !.out = Len(impls) + 1]
  /\ Bounded(heap', impls')

Filter(s, f) == Produce("filter", s, f, filter(heap, impls[s], f))

Map(s, f) == Produce("map", s, f, apply(heap, impls[s], f))

Every(s, f) == Produce("every", s, f, every(heap, impls[s], f))

Or(s, f) ==
  Produce("or", s, f, or(heap, impls[s], f, Default(heap[impls[s].item].kind)))

\* Add asserts the element type, so other holds what the item holds
Chain(s, o) ==
  LET r == chain(heap, impls[s], o)
  IN /\ ElemKind(heap[o]) = ElemKind(heap[impls[s].item])
     /\ heap' = r.h
     /\ impls' = IF r.panic THEN impls ELSE Append(impls, r.it)
     /\ calls' = calls
     /\ ret' = IF r.panic THEN RetPanic("chain", s)
               ELSE [Ret2("chain", s, o) EXCEPT !.out = Len(impls) + 1]
     /\ Bounded(heap', impls')

Zip(s, o) ==
  LET r == zip(heap, impls[s], o)
  IN /\ heap' = r.h
     /\ impls' = Append(impls, r.it)
     /\ calls' = calls
     /\ ret' = [Ret2("zip", s, o) EXCEPT !.out = Len(impls) + 1]
     /\ Bounded(heap', impls')

\* "Into assumes a newly initialized target Iterable", so not the item itself
Into(s, t, as) ==
  LET r == into(heap, impls[s], t, as)
  IN /\ t # impls[s].item \/ IsResetter(heap[t])
     /\ ConvFrom(as) = ElemKind(heap[impls[s].item])
     /\ ConvTo(as) = ElemKind(heap[t])
     /\ heap' = r.h
     /\ impls' = Append(impls, r.it)
     /\ calls' = calls
     /\ ret' = [Ret2("into", s, t) EXCEPT !.f = as, !.out = Len(impls) + 1]
     /\ Bounded(heap', impls')

From(s, o, as) ==
  LET r == from(heap, impls[s], o, as)
  IN /\ ConvFrom(as) = ElemKind(heap[o])
     /\ ConvTo(as) = ElemKind(heap[impls[s].item])
     /\ heap' = r.h
     /\ impls' = IF r.reused \/ r.panic THEN impls ELSE Append(impls, r.it)
     /\ calls' = calls
     /\ ret' = IF r.panic THEN RetPanic("from", s)
               ELSE [Ret2("from", s, o) EXCEPT
                       !.f = as, !.out = IF r.reused THEN s ELSE Len(impls) + 1]
     /\ Bounded(heap', impls')

\* Collect: the facade hands out what the item's To returns; an item
\* without To fails the type assertion
Collect(s) ==
  LET i == impls[s].item
  IN /\ UNCHANGED <<heap, impls>>
     /\ calls' = calls
     /\ ret' = IF HasTo(heap[i])
                THEN [ret EXCEPT !.op = "collect", !.self = s, !.pre = heap[i].idx,
                                 !.val = Some(To(heap[i]))]
                ELSE RetPanic("collect", s)

\* ---- the calls a caller makes on a container itself; ret.cnt counts the
\* ---- Next and Enumerate calls made since the last Rewind or Reset, ret.n
\* ---- the Enumerate calls among them, and ret.seen lists the elements
\* ---- they returned ----

CallAdd(o, v) ==
  /\ heap' = [heap EXCEPT ![o] = Add(@, v)]
  /\ impls' = impls
  /\ calls' = calls
  /\ ret' = [ret EXCEPT !.op = "add", !.arg = o, !.preArg = heap[o].idx,
                        !.val = Some(v), !.more = FALSE, !.idx = 0]
  /\ Bounded(heap', impls')

CallNext(o) ==
  LET r == Next(heap[o])
  IN /\ heap' = [heap EXCEPT ![o] = r.o]
     /\ impls' = impls
     /\ calls' = calls
     /\ ret' = [ret EXCEPT !.op = "next", !.arg = o, !.preArg = heap[o].idx,
                           !.val = r.v, !.more = r.more, !.idx = 0,
                           !.cnt = @ + 1,
                           !.seen = IF r.more THEN Append(@, r.v[1]) ELSE @]
     /\ Bounded(heap', impls')

CallEnumerate(o) ==
  LET r == Enumerate(heap[o])
  IN /\ heap' = [heap EXCEPT ![o] = r.o]
     /\ impls' = impls
     /\ calls' = calls
     /\ ret' = [ret EXCEPT !.op = "enumerate", !.arg = o, !.preArg = heap[o].idx,
                           !.val = r.v, !.more = r.more, !.idx = r.i,
                           !.cnt = @ + 1, !.n = @ + 1,
                           !.seen = IF r.more THEN Append(@, r.v[1]) ELSE @]
     /\ Bounded(heap', impls')

CallRewind(o) ==
  /\ heap' = [heap EXCEPT ![o] = Rewind(@)]
  /\ impls' = impls
  /\ calls' = calls
  /\ ret' = [ret EXCEPT !.op = "rewind", !.arg = o, !.preArg = heap[o].idx,
                        !.val = Nil, !.more = FALSE, !.idx = 0,
                        !.cnt = 0, !.n = 0, !.seen = <<>>]

CallReset(o) ==
  /\ heap' = [heap EXCEPT ![o] = Reset(@)]
  /\ impls' = impls
  /\ calls' = calls
  /\ ret' = [ret EXCEPT !.op = "reset", !.arg = o, !.preArg = heap[o].idx,
                        !.val = Nil, !.more = FALSE, !.idx = 0,
                        !.cnt = 0, !.n = 0, !.seen = <<>>]

CallNew(o) ==
  /\ ~NewFails(heap[o])
  /\ heap' = Append(heap, New(heap[o]))
  /\ impls' = impls
  /\ calls' = calls
  /\ ret' = [ret EXCEPT !.op = "new", !.arg = o, !.preArg = heap[o].idx,
                        !.val = Nil, !.more = FALSE, !.idx = 0, !.out = Len(heap) + 1]
  /\ Bounded(heap', impls')

Facades == 1..Len(impls)
Objs == 1..Len(heap)
Args == (-1)..MaxN

\* ---- Spec: one facade over a string container; the calls that keep the
\* ---- facade (Advance, Count, Nth, Each, First, Last, From) in any order ----

OtherObjs == {NewInts(d) : d \in SeqsUpTo(Ints, MaxOther)}

Init ==
  /\ \E s \in SeqsUpTo(Strs, MaxLen), b \in OtherObjs : heap = <<FromStrings(s), b>>
  /\ impls = <<newIter(1)>>
  /\ ret = NoRet
  /\ calls = <<>>

Next_ ==
  \/ \E s \in Facades, n \in Args : Advance(s, n)
  \/ \E s \in Facades : Count(s)
  \/ \E s \in Facades, n \in Args : NthCall(s, n)
  \/ \E s \in Facades : Each(s)
  \/ \E s \in Facades, f \in FilterFuncs : First(s, f)
  \/ \E s \in Facades, f \in FilterFuncs : Last(s, f)
  \/ \E s \in Facades, o \in Objs, as \in ConvertFuncs : From(s, o, as)

Spec == Init /\ [][Next_]_vars

\* ---- SpecEach: one facade over a string container that is a Rewinder
\* ---- (IterStrings) or not (the caller's bare container); the calls that
\* ---- move or rewind the cursor, and Each, in any order ----

InitEach ==
  /\ \E s \in SeqsUpTo(Strs, MaxLen) : heap = <<FromStrings(s)>> \/ heap = <<FromBare(s)>>
  /\ impls = <<newIter(1)>>
  /\ ret = NoRet
  /\ calls = <<>>

NextEach ==
  \/ \E n \in Args : Advance(1, n)
  \/ Count(1)
  \/ \E n \in Args : NthCall(1, n)
  \/ Each(1)
  \/ \E f \in FilterFuncs : First(1, f)
  \/ \E f \in FilterFuncs : Last(1, f)

SpecEach == InitEach /\ [][NextEach]_vars

\* ---- SpecFail: a facade over IterStrings, over the caller's bare
\* ---- container or over the one whose New fails; the cursor is moved, then
\* ---- one call that needs New or the Enumerator is made ----

InitFail ==
  /\ \E s \in SeqsUpTo(Strs, MaxLen), b \in SeqsUpTo(Strs, MaxOther) :
        \/ heap = <<FromStrings(s), FromStrings(b)>>
        \/ heap = <<FromBare(s), FromStrings(b)>>
        \/ heap = <<FromNoNew(s), FromStrings(b)>>
  /\ impls = <<newIter(1)>>
  /\ ret = NoRet
  /\ calls = <<>>

NextFail ==
  \/ \E n \in 1..MaxN : ret.op \in {"none", "advance"} /\ Advance(1, n)
  \/ \E f \in FilterFuncs : ret.op \in {"none", "advance"} /\ Filter(1, f)
  \/ \E f \in MapFuncs : ret.op \in {"none", "advance"} /\ Map(1, f)
  \/ \E f \in EveryFuncs : ret.op \in {"none", "advance"} /\ Every(1, f)
  \/ \E f \in FilterFuncs : ret.op \in {"none", "advance"} /\ Or(1, f)
  \/ ret.op \in {"none", "advance"} /\ Chain(1, 2)
  \/ ret.op \in {"none", "advance"} /\ Zip(1, 2)
  \/ ret.op \in {"none", "advance"} /\ From(1, 2, "num")
  \/ \E f \in FilterFuncs : ret.op \in {"none", "advance"} /\ First(1, f)
  \/ \E f \in FilterFuncs : ret.op \in {"none", "advance"} /\ Last(1, f)

SpecFail == InitFail /\ [][NextFail]_vars

\* ---- SpecComb: two containers of any content, the first behind a facade;
\* ---- the cursors are moved, then one combinator is called ----

StartObjs ==
  {FromStrings(s) : s \in SeqsUpTo(Strs, MaxLen)}
    \cup {FromBare(s) : s \in SeqsUpTo(Strs, MaxLen)}
    \cup {NewInts(d) : d \in SeqsUpTo(Ints, MaxLen)}

InitComb ==
  /\ \E a \in StartObjs, b \in StartObjs : heap = <<a, b>>
  /\ impls = <<newIter(1)>>
  /\ ret = NoRet
  /\ calls = <<>>

\* no combinator has been called yet
Fresh == ret.op \in {"none", "advance", "next"}

NextComb ==
  \/ \E n \in 1..MaxN : Fresh /\ Advance(1, n)
  \/ Fresh /\ NextOn(2)
  \/ \E f \in FilterFuncs : Fresh /\ Filter(1, f)
  \/ \E f \in MapFuncs : Fresh /\ Map(1, f)
  \/ \E f \in EveryFuncs : Fresh /\ Every(1, f)
  \/ \E f \in FilterFuncs : Fresh /\ Or(1, f)
  \/ \E o \in Objs : Fresh /\ Chain(1, o)
  \/ \E o \in Objs : Fresh /\ Zip(1, o)
  \/ \E t \in Objs, as \in ConvertFuncs : Fresh /\ Into(1, t, as)
  \/ \E o \in Objs, as \in ConvertFuncs : Fresh /\ From(1, o, as)

SpecComb == InitComb /\ [][NextComb]_vars

\* ---- IterStrings.Next run by goroutines without synchronisation. The
\* ---- statement is.idx++ is a load and a store; the test is.idx < is.size
\* ---- and the index expression is.data[is.idx] each read is.idx, from
\* ---- memory or from the register that holds the incremented value,
\* ---- whichever the build chose ----

Threads == {1, 2}

\* pc: idle, loaded, stored, indexing, done; reg: the cursor value loaded;
\* pre: the cursor in memory when the call began; at, val, more: the index
\* read and the results; oob: the index expression was out of range;
\* overlap: another call was in flight during this one; again: the
\* goroutine had made a call before this one
NoCall == [pc |-> "idle", reg |-> -1, pre |-> -1, at |-> -1, val |-> Nil,
           more |-> FALSE, oob |-> FALSE, overlap |-> FALSE, again |-> FALSE]

InCall(c) == c.pc \in {"loaded", "stored", "indexing"}

\* the values a read of is.idx by goroutine t can produce
IdxReads(t) == {heap[1].idx, calls[t].reg + 1}

\* the call begins: is.idx is loaded
RaceLoad(t) ==
  /\ calls[t].pc \in {"idle", "done"}
  /\ calls' = [u \in Threads |->
                 IF u = t
                 THEN [NoCall EXCEPT !.pc = "loaded", !.reg = heap[1].idx,
                                     !.pre = heap[1].idx,
                                     !.overlap = \E o \in Threads \ {t} : InCall(calls[o]),
                                     !.again = calls[t].pc = "done"]
                 ELSE IF InCall(calls[u]) THEN [calls[u] EXCEPT !.overlap = TRUE]
                 ELSE calls[u]]
  /\ UNCHANGED <<heap, impls, ret>>

\* a store that adds two to the value loaded
RaceStoreTwo(t) ==
  /\ calls[t].pc = "loaded"
  /\ heap' = [heap EXCEPT ![1].idx = calls[t].reg + 2]
  /\ calls' = [calls EXCEPT ![t].pc = "stored", ![t].reg = @ + 1]
  /\ UNCHANGED <<impls, ret>>
  /\ Bounded(heap', impls')

\* is.idx++ completes: the value loaded, plus one, is stored
RaceStore(t) ==
  /\ calls[t].pc = "loaded"
  /\ heap' = [heap EXCEPT ![1].idx = calls[t].reg + 1]
  /\ calls' = [calls EXCEPT ![t].pc = "stored"]
  /\ UNCHANGED <<impls, ret>>
  /\ Bounded(heap', impls')

\* if is.idx < is.size; otherwise return nil, false
RaceTest(t) ==
  /\ calls[t].pc = "stored"
  /\ \E i \in IdxReads(t) :
       calls' = [calls EXCEPT ![t] =
                   IF i < heap[1].size
                   THEN [@ EXCEPT !.pc = "indexing"]
                   ELSE [@ EXCEPT !.pc = "done", !.at = i, !.val = Nil, !.more = FALSE]]
  /\ UNCHANGED <<heap, impls, ret>>

\* return is.data[is.idx], true; an index outside the slice panics
RaceIndex(t) ==
  /\ calls[t].pc = "indexing"
  /\ \E i \in IdxReads(t) :
       calls' = [calls EXCEPT ![t] =
                   IF 0 <= i /\ i < Len(heap[1].data)
                   THEN [@ EXCEPT !.pc = "done", !.at = i,
                                  !.val = Some(heap[1].data[i + 1]), !.more = TRUE]
                   ELSE [@ EXCEPT !.pc = "done", !.at = i, !.oob = TRUE]]
  /\ UNCHANGED <<heap, impls, ret>>

\* ---- SpecRace: two goroutines call Next on one IterStrings, again and
\* ---- again, their steps interleaved in any order ----

InitRace ==
  /\ \E s \in SeqsUpTo(Strs, MaxLen) : heap = <<FromStrings(s)>>
  /\ impls = <<newIter(1)>>
  /\ ret = NoRet
  /\ calls = [t \in Threads |-> NoCall]

NextRace ==
  \/ \E t \in Threads : RaceLoad(t)
  \/ \E t \in Threads : RaceStore(t)
  \/ \E t \in Threads : RaceTest(t)
  \/ \E t \in Threads : RaceIndex(t)

SpecRace == InitRace /\ [][NextRace]_vars

\* ---- the facade calls taken one loop iteration at a time. The frame of
\* ---- the call in flight is calls[1]: pc is "loop" (chain's second loop:
\* ---- "loop2"; the Next that Nth makes after advanceBy: "tail") or
\* ---- "returned"; adv counts the Next and Enumerate calls the call has made
\* ---- on each container, size0 holds the containers' lengths at the call ----

Bump(adv, i) == [adv EXCEPT ![i] = @ + 1]

\* the return of the call: the deferred Rewind of each, count and Nth, the
\* size reset of count, the new iter struct of a combinator
Finish(c, h, m) ==
  LET rew == c.op \in {"each", "count", "nth"} /\ IsRewinder(h[c.src])
  IN [c |-> [c EXCEPT !.pc = "returned"],
      h |-> IF rew THEN [h EXCEPT ![c.src] = Rewind(@)] ELSE h,
      m |-> IF c.fresh THEN Append(m, newIter(c.dst))
            ELSE IF rew /\ c.op = "count" THEN [m EXCEPT ![c.s].size = 0]
            ELSE m]

\* what the loop body does with the element v it got from a container of
\* kind k whose cursor is at i
Added(c, h, k, i, v) ==
  LET conv == ApplyConvert(c.f, v)
  IN CASE c.op = "filter" -> IF ApplyFilter(c.f, k, v) THEN [h EXCEPT ![c.dst] = Add(@, v)] ELSE h
       [] c.op = "map"    -> [h EXCEPT ![c.dst] = Add(@, ApplyMap(c.f, k, v))]
       [] c.op = "every"  -> [h EXCEPT ![c.dst] = Add(@, ApplyEvery(c.f, k, i, v))]
       [] c.op = "or"     -> [h EXCEPT ![c.dst] = Add(@, IF ApplyFilter(c.f, k, v) THEN v ELSE Default(k))]
       [] c.op = "chain"  -> [h EXCEPT ![c.dst] = Add(@, v)]
       [] c.op \in {"into", "from"} -> IF conv.ok THEN [h EXCEPT ![c.dst] = Add(@, conv.v)] ELSE h
       [] OTHER -> h

\* one iteration of the loop of the call in flight
loopBody(c, h, m) ==
  LET src == IF c.op = "from" \/ c.pc = "loop2" THEN c.other ELSE c.src
      r == Next(h[src])
      h2 == [h EXCEPT ![src] = r.o]
      c2 == [c EXCEPT !.adv = Bump(@, src)]
      z == Next(h2[c.other])
      hz == [h2 EXCEPT ![c.other] = z.o]
      cz == [c2 EXCEPT !.adv = Bump(@, c.other)]
      counted == [m EXCEPT ![c.s].size = @ + 1]
  IN CASE c.op = "zip" ->
            IF ~r.more \/ ~z.more THEN Finish(cz, hz, m)
            ELSE [c |-> cz, h |-> [hz EXCEPT ![c.dst] = Add(@, Pair(r.v[1], z.v[1]))], m |-> m]
       [] c.op \in {"advance", "nth"} /\ c.pc = "loop" ->
            IF c.i >= c.n \/ ~r.more
            THEN LET cx == IF c.i >= c.n THEN c ELSE c2
                     hx == IF c.i >= c.n THEN h ELSE h2
                 IN IF c.op = "nth" THEN [c |-> [cx EXCEPT !.pc = "tail"], h |-> hx, m |-> m]
                    ELSE Finish(cx, hx, m)
            ELSE [c |-> [c2 EXCEPT !.i = @ + 1], h |-> h2, m |-> counted]
       [] c.op = "nth" /\ c.pc = "tail" -> Finish(c2, h2, m)
       [] c.op = "chain" /\ c.pc = "loop" /\ ~r.more ->
            [c |-> [c2 EXCEPT !.pc = "loop2"], h |-> h2, m |-> m]
       [] OTHER ->
            IF ~r.more THEN Finish(c2, h2, m)
            ELSE IF c.op = "first" /\ ApplyFilter(c.f, h2[src].kind, r.v[1]) THEN Finish(c2, h2, m)
            ELSE [c |-> c2, h |-> Added(c, h2, h2[src].kind, r.o.idx, r.v[1]),
                  m |-> IF c.op = "count" THEN counted ELSE m]

\* the longest slice a call can build out of the slices handed to the
\* constructors; a loop that would go beyond it is cut there
Capped(h) == \A i \in 1..Len(h) : Len(h[i].data) <= 2 * MaxLen

StepLoop ==
  /\ calls # <<>>
  /\ calls[1].pc # "returned"
  /\ LET r == loopBody(calls[1], heap, impls)
     IN /\ heap' = r.h
        /\ impls' = r.m
        /\ calls' = <<r.c>>
        /\ UNCHANGED ret
        /\ Capped(heap')

\* the call is made: what the function does before its loop (New, the
\* Reset of a Resetter target or receiver), no call being in flight
Call(op, s, o, f, n) ==
  LET i == impls[s].item
      makes == op \in {"filter", "map", "every", "or", "chain", "zip"}
                 \/ (op = "from" /\ ~IsResetter(heap[i]))
      h1 == CASE op = "zip" -> Append(heap, newPairs)
              [] makes /\ op # "zip" -> Append(heap, New(heap[i]))
              [] op = "into" /\ IsResetter(heap[o]) -> [heap EXCEPT ![o] = Reset(@)]
              [] op = "from" /\ IsResetter(heap[i]) -> [heap EXCEPT ![i] = Reset(@)]
              [] OTHER -> heap
      dst == CASE makes -> Len(heap) + 1
               [] op = "into" -> o
               [] op = "from" -> i
               [] OTHER -> 0
  IN /\ calls = <<>>
     /\ (makes /\ op # "zip") => ~NewFails(heap[i])
     /\ op \in {"every", "first", "last"} => IsEnumerator(heap[i])
     /\ op = "chain" => ElemKind(heap[o]) = ElemKind(heap[i])
     /\ op = "into" => ConvFrom(f) = ElemKind(heap[i]) /\ ConvTo(f) = ElemKind(heap[o])
     /\ op = "from" => ConvFrom(f) = ElemKind(heap[o]) /\ ConvTo(f) = ElemKind(heap[i])
     /\ heap' = h1
     /\ calls' = <<[pc |-> "loop", op |-> op, s |-> s, src |-> i, other |-> o,
                    dst |-> dst, f |-> f, n |-> n, i |-> 0,
                    fresh |-> makes \/ op = "into",
                    adv |-> [k \in 1..Len(h1) |-> 0],
                    size0 |-> [k \in 1..Len(h1) |->
                                 IF k <= Len(heap) THEN Len(heap[k].data) ELSE 0]]>>
     /\ UNCHANGED <<impls, ret>>

\* ---- SpecLoop: a facade over an IterStrings or the caller's bare
\* ---- container, and a second container of strings; the cursors are
\* ---- moved, then one call is made and its loop runs to its return ----

InitLoop ==
  /\ \E s \in SeqsUpTo(Strs, MaxLen), b \in SeqsUpTo({"1"}, MaxOther) :
        \/ heap = <<FromStrings(s), FromStrings(b)>>
        \/ heap = <<FromBare(s), FromStrings(b)>>
  /\ impls = <<newIter(1)>>
  /\ ret = NoRet
  /\ calls = <<>>

NextLoop ==
  \/ \E o \in Objs : calls = <<>> /\ NextOn(o)
  \/ StepLoop
  \/ \E n \in Args : Call("advance", 1, 1, "", n)
  \/ \E n \in Args : Call("nth", 1, 1, "", n)
  \/ Call("count", 1, 1, "", 0)
  \/ Call("each", 1, 1, "", 0)
  \/ \E f \in FilterFuncs : Call("first", 1, 1, f, 0)
  \/ \E f \in FilterFuncs : Call("last", 1, 1, f, 0)
  \/ \E f \in FilterFuncs : Call("filter", 1, 1, f, 0)
  \/ \E f \in MapFuncs : Call("map", 1, 1, f, 0)
  \/ \E f \in EveryFuncs : Call("every", 1, 1, f, 0)
  \/ \E f \in FilterFuncs : Call("or", 1, 1, f, 0)
  \/ \E o \in Objs : Call("chain", 1, o, "", 0)
  \/ \E o \in Objs : Call("zip", 1, o, "", 0)
  \/ \E o \in Objs : Call("into", 1, o, "num", 0)
  \/ \E o \in Objs : Call("from", 1, o, "num", 0)

\* the loop of a call in flight goes on running
SpecLoop == InitLoop /\ [][NextLoop]_vars /\ WF_vars(StepLoop)

\* ---- SpecTwice: one facade over an IterStrings; its owner calls Next and
\* ---- Enumerate on the container and the transforming combinators on the
\* ---- facade, one after another, with no Add, Rewind or Reset ----

InitTwice ==
  /\ \E s \in SeqsUpTo(Strs, MaxLen) : heap = <<FromStrings(s)>>
  /\ impls = <<newIter(1)>>
  /\ ret = NoRet
  /\ calls = <<>>

NextTwice ==
  \/ NextOn(1)
  \/ CallEnumerate(1)
  \/ \E f \in FilterFuncs : Filter(1, f)
  \/ \E f \in MapFuncs : Map(1, f)
  \/ \E f \in EveryFuncs : Every(1, f)
  \/ \E f \in FilterFuncs : Or(1, f)

SpecTwice == InitTwice /\ [][NextTwice]_vars

\* ---- SpecCont: one reference container (IterStrings, or the pairs
\* ---- container zip builds) driven by its caller through the Iterable,
\* ---- Enumerator, Rewinder and Resetter methods, and collected through its
\* ---- facade, in any order ----

PairVals == {Pair(x, 1) : x \in Strs}
ElemsOf(o) == IF o.kind = "pairs" THEN PairVals ELSE Strs

InitCont ==
  /\ \/ \E s \in SeqsUpTo(Strs, MaxLen) : heap = <<FromStrings(s)>>
     \/ heap = <<newPairs>>
  /\ impls = <<newIter(1)>>
  /\ ret = NoRet
  /\ calls = <<>>

NextCont ==
  \/ \E v \in ElemsOf(heap[1]) : Len(heap[1].data) < MaxLen /\ CallAdd(1, v)
  \/ CallNext(1)
  \/ CallEnumerate(1)
  \/ CallRewind(1)
  \/ CallReset(1)
  \/ CallNew(1)
  \/ Collect(1)

SpecCont == InitCont /\ [][NextCont]_vars

\* ---- SpecNew: a reference container and the containers its New returns;
\* ---- the caller moves, rewinds and resets the first one, and adds to the
\* ---- first one and to the first one New returned ----

NextNew ==
  \/ \E o \in Objs \cap {1, 2}, v \in ElemsOf(heap[1]) :
        Len(heap[o].data) < MaxLen /\ CallAdd(o, v)
  \/ CallNext(1)
  \/ CallEnumerate(1)
  \/ CallRewind(1)
  \/ CallReset(1)
  \/ \E o \in Objs \cap {1, 2} : CallNew(o)

SpecNew == InitCont /\ [][NextNew]_vars

\* ---- the claims ----------------------------------------------------------

Item(s) == heap[impls[s].item]
\* would a Next() called now return an element
HasNext(o) == Next(o).more
\* the element at zero-based position n, nil outside the slice
ElemAt(d, n) == IF 0 <= n /\ n < Len(d) THEN Some(d[n + 1]) ELSE Nil
Min(a, b) == IF a < b THEN a ELSE b
\* the zero-based index of the last element a Next() has returned, 0 if none
LastVisited(o) == IF o.idx < 0 \/ Len(o.data) = 0 THEN 0 ELSE Min(o.idx, Len(o.data) - 1)

Combinators == {"filter", "map", "every", "or", "chain", "zip", "into", "from"}

\* C1: two Count() calls in a row on one facade over a Rewinder return the
\* same value.
C1_CountTwiceSame ==
  [][(/\ ret.op = "count" /\ ret'.op = "count" /\ ret'.self = ret.self
      /\ IsRewinder(heap[impls[ret.self].item]))
       => ret'.cnt = ret.cnt]_vars

\* C2: Count() on a facade over the reference container returns the number
\* of elements the backing sequence holds.
C2_CountIsSize ==
  (ret.op = "count" /\ Item(ret.self).kind \in {"strings", "pairs"}) =>
    ret.cnt = Len(Item(ret.self).data)

\* C3: the integer of Advance(n) is the index of the last element visited on
\* the backing sequence, and 0 if none has been visited.
C3_AdvanceIndexIsLastVisited ==
  ret.op = "advance" => ret.idx = LastVisited(Item(ret.self))

\* C4 as stated: the boolean of Advance(n) is true exactly when a Next()
\* right after it would return an element.
C4_MoreIffHasNext ==
  ret.op = "advance" => (ret.more <=> HasNext(Item(ret.self)))

\* C4 amended: the boolean of Advance(n) is true exactly when n >= 1 and all
\* n Next() calls of this Advance returned an element, that is when at least
\* n elements were still unvisited before the call.
C4_MoreIffAllAdvanced ==
  ret.op = "advance" =>
    (ret.more <=> (ret.n >= 1 /\ ret.pre + ret.n < Len(Item(ret.self).data)))

\* witness of C4: Advance returned true on reaching the last element, so the
\* following Next() has nothing to return
C4_Witness ==
  /\ ret.op = "advance" /\ ret.more
  /\ ~HasNext(Item(ret.self))
  /\ Item(ret.self).idx = Len(Item(ret.self).data) - 1

\* C5: when Advance(n) returns false, the sequence is exhausted and the
\* integer is the last valid index (of a sequence that has one).
C5_FalseMeansExhausted ==
  (ret.op = "advance" /\ ~ret.more) =>
    /\ ~HasNext(Item(ret.self))
    /\ Len(Item(ret.self).data) > 0 => ret.idx = Len(Item(ret.self).data) - 1

\* C6: on a facade over an empty sequence Advance(n), n >= 1, returns
\* (0, false), at every call.
C6_EmptyAdvance ==
  (ret.op = "advance" /\ ret.n >= 1 /\ Len(Item(ret.self).data) = 0) =>
    (ret.idx = 0 /\ ~ret.more)

\* C7: Nth(n) called at the start of traversal returns the element at
\* position n when 0 <= n < size and nil for every other n.
C7_NthAtStart ==
  (ret.op = "nth" /\ ret.pre = -1) =>
    ret.val = ElemAt(Item(ret.self).data, ret.n)

\* C8: Nth rewinds a Rewinder: after Nth(n), for any n, the cursor is at the
\* start and the elements are unchanged, and an Nth(n), n >= 0, that follows
\* an Nth on the same facade returns the element at position n (nil past the
\* end), whatever the earlier call asked for.
C8_NthRewinds ==
  [][(ret'.op = "nth" /\ IsRewinder(heap[impls[ret'.self].item])) =>
       LET i == impls[ret'.self].item
       IN /\ heap'[i].idx = -1
          /\ heap'[i].data = heap[i].data
          /\ (ret.op = "nth" /\ ret.self = ret'.self /\ ret'.n >= 0)
               => ret'.val = ElemAt(heap[i].data, ret'.n)]_vars

\* witness of C8: an Nth inside the slice right after an Nth that ran past
\* the end; impls[..].size shows the earlier call advanced
C8_Witness ==
  /\ ret.op = "nth" /\ ret.n = 1 /\ ret.val # Nil
  /\ impls[ret.self].size > ret.n
  /\ Item(ret.self).idx = -1

\* C9 as stated: no combinator changes the elements of the receiver's
\* sequence, and the facade returned wraps another sequence and another
\* iter struct than the receiver's.
C9_NoCombinatorMutatesReceiver ==
  [][ret'.op \in Combinators =>
       LET i == impls[ret'.self].item
       IN /\ heap'[i].data = heap[i].data
          /\ impls'[ret'.out].item # i
          /\ ret'.out # ret'.self]_vars

\* C9 amended: filter, map, every, or, chain, zip, into with a target other
\* than the receiver's own sequence, and from on a receiver that is no
\* Resetter, leave the receiver's elements as they were and return a facade
\* over another sequence and another iter struct; from on a Resetter returns
\* the receiver's own iter struct over the receiver's own sequence, which it
\* has reset and filled again.
C9_OnlyFromReusesReceiver ==
  [][LET i == impls[ret'.self].item
     IN /\ (\/ ret'.op \in {"filter", "map", "every", "or", "chain", "zip"}
            \/ (ret'.op = "into" /\ ret'.arg # i)
            \/ (ret'.op = "from" /\ ~IsResetter(heap[i])))
             => /\ heap'[i].data = heap[i].data
                /\ impls'[ret'.out].item # i
                /\ ret'.out # ret'.self
        /\ (ret'.op = "from" /\ IsResetter(heap[i]))
             => /\ ret'.out = ret'.self
                /\ impls' = impls
                /\ Len(heap') = Len(heap)]_vars

\* witness of C9: from has returned the receiver, whose sequence now holds
\* converted elements of the other one
C9_Witness ==
  /\ ret.op = "from" /\ ret.out = ret.self /\ ret.arg # impls[ret.self].item
  /\ Len(Item(ret.self).data) > 0
  /\ Len(impls) = 1

\* C10: filter(S, P) at the start of traversal returns a new sequence that
\* holds exactly the elements of S satisfying P, in their order; so it is no
\* longer than S, equal to S for an always-true P, and empty for an
\* always-false P or an empty S.
C10_FilterSelects ==
  (ret.op = "filter" /\ ret.pre = -1) =>
    LET S == Item(ret.self)
        R == Item(ret.out)
    IN /\ impls[ret.out].item # impls[ret.self].item
       /\ R.data = SelectSeq(S.data, LAMBDA x : ApplyFilter(ret.f, S.kind, x))
       /\ Len(R.data) <= Len(S.data)
       /\ ret.f = "always" => R.data = S.data
       /\ (ret.f = "never" \/ S.data = <<>>) => R.data = <<>>

\* witness of C10: a filter that kept some elements and dropped others
C10_Witness ==
  /\ ret.op = "filter" /\ ret.pre = -1 /\ ret.f = "sel"
  /\ Len(Item(ret.out).data) > 0
  /\ Len(Item(ret.out).data) < Len(Item(ret.self).data)

\* the elements a container whose cursor was at pre had not yet yielded
Rest(d, pre) == IF pre + 2 > Len(d) THEN <<>> ELSE SubSeq(d, pre + 2, Len(d))

\* C11: map(S, f) at the start of traversal returns a new sequence of the
\* size of S whose i-th element is f(S[i]); map(S, identity) equals S.
C11_MapApplies ==
  (ret.op = "map" /\ ret.pre = -1) =>
    LET S == Item(ret.self)
        R == Item(ret.out)
    IN /\ impls[ret.out].item # impls[ret.self].item
       /\ Len(R.data) = Len(S.data)
       /\ \A i \in 1..Len(S.data) : R.data[i] = ApplyMap(ret.f, S.kind, S.data[i])
       /\ ret.f = "id" => R.data = S.data

\* witness of C11: a map over two elements that changed some and kept others
C11_Witness ==
  /\ ret.op = "map" /\ ret.pre = -1 /\ ret.f = "upper"
  /\ Len(Item(ret.self).data) = 2
  /\ Item(ret.out).data[1] = Item(ret.self).data[1]
  /\ Item(ret.out).data[2] # Item(ret.self).data[2]

C14_ChainAllOfBoth ==
  ret.op = "chain" =>
    LET A == Item(ret.self)
        B == heap[ret.arg]
        R == Item(ret.out)
    IN /\ Len(R.data) = Len(A.data) + Len(B.data)
       /\ R.data = A.data \o B.data

\* C14 amended: chain(A, B) on two distinct sources returns a new sequence
\* that holds the elements A had not yet yielded, in order, then those B had
\* not yet yielded, in order; so its size is size(A) + size(B) when both are
\* at the start of traversal.  A sequence chained with itself yields its
\* remaining elements once.
C14_ChainRestOfBoth ==
  ret.op = "chain" =>
    LET A == Item(ret.self)
        B == heap[ret.arg]
        R == Item(ret.out)
    IN /\ impls[ret.out].item \notin {impls[ret.self].item, ret.arg}
       /\ ret.arg = impls[ret.self].item => R.data = Rest(A.data, ret.pre)
       /\ ret.arg # impls[ret.self].item =>
            /\ R.data = Rest(A.data, ret.pre) \o Rest(B.data, ret.preArg)
            /\ (ret.pre = -1 /\ ret.preArg = -1) =>
                 /\ Len(R.data) = Len(A.data) + Len(B.data)
                 /\ R.data = A.data \o B.data

\* witness of C14: two distinct two-element sources, each with one element
\* already yielded, chained into the two remaining elements
C14_Witness ==
  /\ ret.op = "chain" /\ ret.arg # impls[ret.self].item
  /\ ret.pre = 0 /\ ret.preArg = 0
  /\ Len(Item(ret.self).data) = 2 /\ Len(heap[ret.arg].data) = 2
  /\ Item(ret.out).data = <<Item(ret.self).data[2], heap[ret.arg].data[2]>>
  /\ Item(ret.self).data[2] # heap[ret.arg].data[2]

\* C15 as stated: zip(A, B) returns min(size(A), size(B)) Pairs, the i-th
\* being Pair(A[i], B[i]).
C15_ZipPairsByIndex ==
  ret.op = "zip" =>
    LET A == Item(ret.self)
        B == heap[ret.arg]
        R == Item(ret.out)
    IN /\ Len(R.data) = Min(Len(A.data), Len(B.data))
       /\ \A i \in 1..Len(R.data) : R.data[i] = Pair(A.data[i], B.data[i])

\* C15 amended: zip(A, B) on two distinct sources pairs, in order, the
\* elements A had not yet yielded with those B had not yet yielded, as many
\* as the shorter of the two remainders; so at the start of traversal of
\* both it returns min(size(A), size(B)) Pairs, the i-th being
\* Pair(A[i], B[i]), whatever the two lengths.
C15_ZipPairsRests ==
  (ret.op = "zip" /\ ret.arg # impls[ret.self].item) =>
    LET A == Item(ret.self)
        B == heap[ret.arg]
        R == Item(ret.out)
        TA == Rest(A.data, ret.pre)
        TB == Rest(B.data, ret.preArg)
    IN /\ R.kind = "pairs"
       /\ impls[ret.out].item \notin {impls[ret.self].item, ret.arg}
       /\ Len(R.data) = Min(Len(TA), Len(TB))
       /\ \A i \in 1..Len(R.data) : R.data[i] = Pair(TA[i], TB[i])
       /\ (ret.pre = -1 /\ ret.preArg = -1) =>
            /\ Len(R.data) = Min(Len(A.data), Len(B.data))
            /\ \A i \in 1..Len(R.data) : R.data[i] = Pair(A.data[i], B.data[i])

\* witness of C15: sources of unequal length and of different element types,
\* the longer one part-traversed, zipped into one Pair
C15_Witness ==
  /\ ret.op = "zip" /\ ret.arg # impls[ret.self].item
  /\ ret.pre = 0 /\ ret.preArg = -1
  /\ Len(Item(ret.self).data) = 2 /\ Len(heap[ret.arg].data) = 2
  /\ Item(ret.self).kind = "strings" /\ heap[ret.arg].kind = "ints"
  /\ Item(ret.out).data = <<Pair(Item(ret.self).data[2], heap[ret.arg].data[1])>>

\* what a conversion loop adds for the elements d: the outputs of the
\* conversions that succeed, in order
RECURSIVE Converted(_, _)
Converted(as, d) ==
  IF d = <<>> THEN <<>>
  ELSE LET c == ApplyConvert(as, Head(d))
       IN (IF c.ok THEN <<c.v>> ELSE <<>>) \o Converted(as, Tail(d))

\* C16 as stated: into(source, target, convert) returns target, which holds
\* exactly the outputs of convert for the source elements whose conversion
\* succeeded, in source order; a failed conversion skips the element.
C16_IntoHoldsConverted ==
  ret.op = "into" =>
    /\ impls[ret.out].item = ret.arg
    /\ heap[ret.arg].data = Converted(ret.f, Item(ret.self).data)

\* C16 amended: into, with a target other than the source's own sequence,
\* returns target; a failed conversion skips the element
\* and the drain goes on; target ends holding what it held before if it is
\* not a Resetter (nothing if it is), followed, in source order, by the
\* outputs of convert for the elements the source had not yet yielded whose
\* conversion succeeded.
C16_IntoAppendsConvertedRest ==
  [][(ret'.op = "into" /\ ret'.arg # impls[ret'.self].item) =>
       LET src == impls[ret'.self].item
           t == ret'.arg
           kept == IF IsResetter(heap[t]) THEN <<>> ELSE heap[t].data
       IN /\ impls'[ret'.out].item = t
          /\ heap'[t].data = kept \o Converted(ret'.f, Rest(heap[src].data, heap[src].idx))
          /\ ~HasNext(heap'[src])
          /\ (heap[src].idx = -1 /\ kept = <<>>) =>
               heap'[t].data = Converted(ret'.f, heap[src].data)]_vars

\* witness of C16: the first element failed to convert and the second one,
\* after it, was converted into the target
C16_Witness ==
  /\ ret.op = "into" /\ ret.f = "atoi" /\ ret.pre = -1
  /\ Item(ret.self).data = <<"a", "1">>
  /\ heap[ret.arg].data = <<1>>
  /\ impls[ret.out].item = ret.arg

\* C17 as stated: from(other, self, convert) resets and reuses a Resetter
\* self as the destination and takes a new empty sequence of self's type
\* otherwise; the sequence returned holds exactly the successfully converted
\* elements of other, in order, and nothing self held before.
C17_FromHoldsConverted ==
  [][ret'.op = "from" =>
       LET i == impls[ret'.self].item
           dst == impls'[ret'.out].item
       IN /\ IsResetter(heap[i]) => dst = i
          /\ ~IsResetter(heap[i]) =>
               /\ dst = Len(heap) + 1
               /\ heap'[dst].kind = heap[i].kind
               /\ heap'[i] = heap[i]
          /\ heap'[dst].data = Converted(ret'.f, heap[ret'.arg].data)]_vars

\* C17 amended: as stated, for an other that is not self's own sequence and
\* with "the elements other had not yet yielded" in place of "the elements
\* of other"; the destination's cursor is at the start.
C17_FromHoldsConvertedRest ==
  [][(ret'.op = "from" /\ ret'.arg # impls[ret'.self].item) =>
       LET i == impls[ret'.self].item
           o == ret'.arg
           dst == impls'[ret'.out].item
       IN /\ IsResetter(heap[i]) => dst = i
          /\ ~IsResetter(heap[i]) =>
               /\ dst = Len(heap) + 1
               /\ heap'[dst].kind = heap[i].kind
               /\ heap'[i] = heap[i]
          /\ heap'[dst].idx = -1
          /\ heap'[dst].data = Converted(ret'.f, Rest(heap[o].data, heap[o].idx))
          /\ heap[o].idx = -1 =>
               heap'[dst].data = Converted(ret'.f, heap[o].data)]_vars

\* witness of C17: a Resetter self that had yielded an element was reused
\* for the one element a part-traversed other had left
C17_Witness ==
  /\ ret.op = "from" /\ ret.out = ret.self /\ ret.arg # impls[ret.self].item
  /\ ret.pre = 0 /\ ret.preArg = 0
  /\ Len(heap[ret.arg].data) = 2
  /\ Len(Item(ret.self).data) = 1
  /\ Item(ret.self).idx = -1

\* C18: each hands the function every element the source had not yet
\* yielded, once, in order, and changes no element; afterwards a Rewinder
\* has its cursor at the start, so that an each right after it sees every
\* element (those of the first each again), and a source that is no
\* Rewinder is exhausted.
C18_EachVisitsRestThenRewinds ==
  [][ret'.op = "each" =>
       LET i == impls[ret'.self].item
       IN /\ ret'.seen = Rest(heap[i].data, heap[i].idx)
          /\ heap'[i].data = heap[i].data
          /\ IsRewinder(heap[i]) => heap'[i].idx = -1
          /\ ~IsRewinder(heap[i]) =>
               (heap'[i].idx >= Len(heap'[i].data) /\ ~HasNext(heap'[i]))
          /\ (ret.op = "each" /\ ret.self = ret'.self /\ IsRewinder(heap[i])) =>
               /\ ret'.seen = heap[i].data
               /\ ret.seen = Rest(ret'.seen, Len(ret'.seen) - Len(ret.seen) - 1)
               /\ ret.pre = -1 => ret'.seen = ret.seen]_vars

\* witness of C18: each on a Rewinder that had yielded one of two elements
\* saw the other one and left the cursor at the start
C18_Witness ==
  /\ ret.op = "each" /\ ret.pre = 0
  /\ Len(Item(ret.self).data) = 2
  /\ ret.seen = <<Item(ret.self).data[2]>>
  /\ Item(ret.self).idx = -1

\* the zero-based positions after the cursor pre whose element satisfies f
Matches(o, f, pre) ==
  {i \in 0..(Len(o.data) - 1) : i > pre /\ ApplyFilter(f, o.kind, o.data[i + 1])}
MinOf(S) == CHOOSE i \in S : \A j \in S : i <= j
MaxOf(S) == CHOOSE i \in S : \A j \in S : i >= j

\* C19 as stated: first(S, P) returns (i, S[i], true) for the smallest index
\* i with P(S[i]), goes no further than i, and returns (-1, nil, false) when
\* no element of S satisfies P.
C19_FirstSmallestIndex ==
  ret.op = "first" =>
    LET S == Item(ret.self)
        M == Matches(S, ret.f, -1)
    IN IF M # {}
       THEN /\ ret.more /\ ret.idx = MinOf(M) /\ ret.val = Some(S.data[MinOf(M) + 1])
            /\ S.idx = ret.idx
       ELSE ~ret.more /\ ret.idx = -1 /\ ret.val = Nil

\* C19 amended: first(S, P) returns (i, S[i], true) for the smallest index i
\* among the elements S had not yet yielded with P(S[i]), and leaves the
\* cursor at i; it returns (-1, nil, false), with S exhausted, when none of
\* them satisfies P; at the start of traversal these are all elements of S.
C19_FirstSmallestUnvisited ==
  ret.op = "first" =>
    LET S == Item(ret.self)
        M == Matches(S, ret.f, ret.pre)
    IN /\ IF M # {}
          THEN /\ ret.more /\ ret.idx = MinOf(M) /\ ret.val = Some(S.data[MinOf(M) + 1])
               /\ S.idx = ret.idx
          ELSE ~ret.more /\ ret.idx = -1 /\ ret.val = Nil /\ ~HasNext(S)
       /\ ret.pre = -1 => M = Matches(S, ret.f, -1)

\* witness of C19: both elements satisfy the predicate, the first had been
\* yielded already, and first returned the second
C19_Witness ==
  /\ ret.op = "first" /\ ret.pre = 0 /\ ret.f = "sel"
  /\ Matches(Item(ret.self), ret.f, -1) = {0, 1}
  /\ ret.idx = 1 /\ ret.more

\* C20 as stated: last(S, P) scans every element and returns (i, S[i], true)
\* for the largest index i with P(S[i]), and (-1, nil, false) when no
\* element of S satisfies P.
C20_LastLargestIndex ==
  ret.op = "last" =>
    LET S == Item(ret.self)
        M == Matches(S, ret.f, -1)
    IN /\ ~HasNext(S)
       /\ IF M # {}
          THEN ret.more /\ ret.idx = MaxOf(M) /\ ret.val = Some(S.data[MaxOf(M) + 1])
          ELSE ~ret.more /\ ret.idx = -1 /\ ret.val = Nil

\* C20 amended: last(S, P) scans every element S had not yet yielded and
\* returns (i, S[i], true) for the largest index i among them with P(S[i]),
\* and (-1, nil, false) when none of them satisfies P; at the start of
\* traversal these are all elements of S.
C20_LastLargestUnvisited ==
  ret.op = "last" =>
    LET S == Item(ret.self)
        M == Matches(S, ret.f, ret.pre)
    IN /\ ~HasNext(S) /\ S.idx >= Len(S.data)
       /\ IF M # {}
          THEN ret.more /\ ret.idx = MaxOf(M) /\ ret.val = Some(S.data[MaxOf(M) + 1])
          ELSE ~ret.more /\ ret.idx = -1 /\ ret.val = Nil
       /\ ret.pre = -1 => M = Matches(S, ret.f, -1)

\* witness of C20: both elements satisfy the predicate and last, called at
\* the start, returned the second
C20_Witness ==
  /\ ret.op = "last" /\ ret.pre = -1 /\ ret.f = "sel"
  /\ Matches(Item(ret.self), ret.f, -1) = {0, 1}
  /\ ret.idx = 1 /\ ret.more /\ ret.val = Some(Item(ret.self).data[2])

\* the name of the call a step has made, returned or panicked
Called(r) == IF r.op = "panic" THEN r.panic ELSE r.op

\* C21: every, first and last on a sequence that is no Enumerator panic and
\* return nothing; the panic comes before any element is visited, so the
\* cursor and the elements of the source are as before the call.
C21_NoEnumeratorPanics ==
  [][LET i == impls[ret'.self].item
     IN (Called(ret') \in {"every", "first", "last"} /\ ~IsEnumerator(heap[i])) =>
          /\ ret'.op = "panic"
          /\ ret'.out = 0 /\ ret'.val = Nil /\ ~ret'.more
          /\ heap' = heap
          /\ impls' = impls]_vars

\* witness of C21: first panicked on a part-traversed source that is no
\* Enumerator and whose New succeeds, and left its cursor where it was
C21_Witness ==
  /\ ret.op = "panic" /\ ret.panic = "first"
  /\ Item(ret.self).kind = "bare"
  /\ ret.pre = 0 /\ Item(ret.self).idx = 0
  /\ Len(Item(ret.self).data) = 2

\* C22: when New of the source fails, filter, map, every, or, chain, and
\* from on a receiver that is no Resetter, panic without visiting an element
\* of a source and without returning a facade; New of the reference
\* container never fails, so these calls return on it.
C22_NewFailurePanics ==
  [][LET i == impls[ret'.self].item
         builds == \/ Called(ret') \in {"filter", "map", "every", "or", "chain"}
                   \/ (Called(ret') = "from" /\ ~IsResetter(heap[i]))
     IN /\ (builds /\ NewFails(heap[i])) =>
             /\ ret'.op = "panic"
             /\ ret'.out = 0
             /\ heap' = heap
             /\ impls' = impls
        /\ (Called(ret') \in {"filter", "map", "every", "or", "chain", "from"}
              /\ heap[i].kind \in {"strings", "pairs"}) =>
             /\ ~NewFails(New(heap[i]))
             /\ ret'.op # "panic"
             /\ ret'.out \in 1..Len(impls')]_vars

\* witness of C22: chain panicked on a part-traversed source whose New
\* fails; neither it nor the other sequence has moved
C22_Witness ==
  /\ ret.op = "panic" /\ ret.panic = "chain"
  /\ NewFails(Item(ret.self))
  /\ ret.pre = 0 /\ Item(ret.self).idx = 0
  /\ heap[2].idx = -1 /\ Len(heap[2].data) > 0
  /\ Len(impls) = 1

\* a Next has reported, or would report, that no element is left
Exhausted(o) == o.idx >= Len(o.data) /\ ~HasNext(o)

\* C23 as stated: when filter, map, every, or, chain, zip, into or from
\* returns, each of its sources is exhausted and the result is held by a
\* new sequence.
C23_AllSourcesDrained ==
  ret.op \in Combinators =>
    LET i == impls[ret.self].item
        o == impls[ret.out].item
    IN /\ ret.op # "from" => Exhausted(heap[i])
       /\ ret.op \in {"chain", "zip", "from"} => Exhausted(heap[ret.arg])
       /\ o # i
       /\ ret.op \in {"chain", "zip", "into", "from"} => o # ret.arg

\* C23 amended: filter, map, every, or and chain return with every source
\* exhausted and the result in a new sequence; into returns with its source
\* exhausted and the result in target; from returns with other exhausted;
\* zip returns its Pairs in a new sequence as soon as one source is
\* exhausted: the source with the shorter remainder is exhausted (both when
\* the remainders are equal) and the other one need not be.
C23_SourcesDrainedButZip ==
  ret.op \in Combinators =>
    LET i == impls[ret.self].item
        o == impls[ret.out].item
        TA == Rest(heap[i].data, ret.pre)
        TB == Rest(heap[ret.arg].data, ret.preArg)
    IN /\ ret.op \in {"filter", "map", "every", "or", "chain", "into"} => Exhausted(heap[i])
       /\ ret.op \in {"chain", "from"} => Exhausted(heap[ret.arg])
       /\ ret.op \in {"filter", "map", "every", "or"} => o # i
       /\ ret.op \in {"chain", "zip"} => o \notin {i, ret.arg}
       /\ ret.op = "into" => o = ret.arg
       /\ ret.op = "zip" =>
            /\ Exhausted(heap[i]) \/ Exhausted(heap[ret.arg])
            /\ (ret.arg # i /\ Len(TA) <= Len(TB)) => Exhausted(heap[i])
            /\ (ret.arg # i /\ Len(TB) <= Len(TA)) => Exhausted(heap[ret.arg])

\* witness of C23: zip of two elements with an empty sequence has returned
\* and the longer source is at its first element, not exhausted
C23_Witness ==
  /\ ret.op = "zip" /\ ret.arg # impls[ret.self].item
  /\ ret.pre = -1 /\ Len(Item(ret.self).data) = 2 /\ Len(heap[ret.arg].data) = 0
  /\ Item(ret.self).idx = 0
  /\ ~Exhausted(Item(ret.self)) /\ Exhausted(heap[ret.arg])
  /\ Item(ret.out).data = <<>>

\* C24: collect returns the backing list, all elements in insertion order
\* whatever the cursor, and consumes nothing: the cursor and the elements are
\* the same after the call as before; it can be called in any traversal
\* state, and a repeated call returns the same result.
C24_CollectReturnsBackingList ==
  [][ret'.op = "collect" =>
       LET o == heap[impls[ret'.self].item]
       IN /\ ret'.val = Some(o.data)
          /\ heap' = heap
          /\ impls' = impls
          /\ ret.op = "collect" => ret'.val = ret.val]_vars

\* witness of C24: collect called in the middle of a traversal, after one
\* element of two was visited, returned both
C24_Witness ==
  /\ ret.op = "collect" /\ ret.cnt = 1
  /\ Item(ret.self).idx = 0 /\ Len(Item(ret.self).data) = 2
  /\ ret.val = Some(Item(ret.self).data)

\* the reference containers: IterStrings and pairs
RefObjs == {i \in 1..Len(heap) : heap[i].kind \in {"strings", "pairs"}}

\* the advances (Next, Enumerate) since the last Rewind or Reset that
\* returned no element
FailedAdvances == ret.cnt - Len(ret.seen)

\* C26 as stated: in every state reachable through Add, Next, Enumerate,
\* Rewind and Reset the cursor of a reference container lies between -1 and
\* its size.
C26_CursorWithinSize ==
  \A i \in RefObjs : -1 <= heap[i].idx /\ heap[i].idx <= heap[i].size

\* C26 amended: the cursor is never below -1 and is one less than the
\* number of advances made since the last Rewind or Reset, the failed ones
\* included; it is at most the size as long as at most one advance has
\* failed, and exceeds the size only after a second failed advance.
C26_CursorCountsAdvances ==
  /\ \A i \in RefObjs : -1 <= heap[i].idx
  /\ heap[1].idx = ret.cnt - 1
  /\ FailedAdvances <= 1 => heap[1].idx <= heap[1].size
  /\ \A i \in RefObjs \ {1} : heap[i].idx = -1 /\ heap[i].size = 0

\* witness of C26: a second Next in a row has failed and the cursor is one
\* past the size
C26_Witness ==
  /\ ret.op = "next" /\ ~ret.more /\ FailedAdvances = 2
  /\ heap[1].size = 1 /\ heap[1].idx = heap[1].size + 1
  /\ ret.seen = heap[1].data

\* C27 as stated: in an interleaving of Add and Next without Rewind or
\* Reset, each Next returns the next element not yet visited, in insertion
\* order and once each, and returns no element only when none appended so
\* far is unvisited, whether it was appended before or after an earlier Next
\* that returned none.
C27_AdvanceSeesEveryAppend ==
  ret.n = 0 =>
    /\ Len(ret.seen) <= Len(heap[1].data)
    /\ ret.seen = SubSeq(heap[1].data, 1, Len(ret.seen))
    /\ (ret.op = "next" /\ ~ret.more) => ret.seen = heap[1].data

\* C27 amended: in an interleaving of Add and Next (or Enumerate) without
\* Rewind or Reset, the k-th advance returns the k-th appended element when
\* it has been appended by then and no element otherwise; so until an advance
\* returns none, each returns the next unvisited element in insertion order,
\* and the first one that returns none does so only when no appended element
\* is unvisited. The elements returned are always in insertion order,
\* without repetition.
C27_KthAdvanceReturnsKthAppend ==
  LET d == heap[1].data
  IN /\ ret.op \in {"next", "enumerate"} =>
          /\ ret.more <=> ret.cnt <= Len(d)
          /\ ret.more => ret.val = Some(d[ret.cnt])
     /\ FailedAdvances = 0 => ret.seen = SubSeq(d, 1, ret.cnt)
     /\ (ret.op \in {"next", "enumerate"} /\ ~ret.more /\ FailedAdvances = 1) => ret.seen = d
     /\ Len(ret.seen) <= Len(d)
     /\ \E pos \in [1..Len(ret.seen) -> 1..Len(d)] :
          /\ \A j \in 1..Len(ret.seen) : ret.seen[j] = d[pos[j]]
          /\ \A j, k \in 1..Len(ret.seen) : j < k => pos[j] < pos[k]

\* witness of C27: a Next on the empty container returned no element, one
\* element was appended, and the following Next returned none again
C27_Witness ==
  /\ ret.op = "next" /\ ~ret.more /\ ret.n = 0
  /\ ret.cnt = 2 /\ ret.seen = <<>>
  /\ Len(heap[1].data) = 1 /\ heap[1].idx = 1

\* the elements a caller gets by calling Next on o until it returns none
RECURSIVE Traversal(_)
Traversal(o) ==
  LET r == Next(o)
  IN IF r.more THEN <<r.v[1]>> \o Traversal(r.o) ELSE <<>>

\* C28: Rewind, called in any state (also with the cursor past the end),
\* puts the cursor at -1 and leaves elements and size as they were, so that
\* a full traversal afterwards yields all elements in order; Reset puts the
\* cursor at -1 and the size at 0 and discards the elements, so that the
\* next Next returns none.
C28_RewindAndResetRestart ==
  [][/\ ret'.op = "rewind" =>
          /\ heap'[1].idx = -1
          /\ heap'[1].data = heap[1].data
          /\ heap'[1].size = heap[1].size
          /\ Traversal(heap'[1]) = heap[1].data
     /\ ret'.op = "reset" =>
          /\ heap'[1].idx = -1
          /\ heap'[1].size = 0
          /\ heap'[1].data = <<>>
          /\ ~Next(heap'[1]).more
          /\ Traversal(heap'[1]) = <<>>]_vars

\* witness of C28: Rewind was called on a container of two elements whose
\* cursor had gone past the end
C28_Witness ==
  /\ ret.op = "rewind" /\ ret.preArg = 3
  /\ Len(heap[1].data) = 2 /\ heap[1].idx = -1

C30_IntoResetsTarget ==
  [][ret'.op = "into" =>
       LET src == impls[ret'.self].item
           t == ret'.arg
           R == heap'[t]
           conv == Converted(ret'.f, Rest(heap[src].data, heap[src].idx))
       IN /\ impls'[ret'.out].item = t
          /\ IsResetter(heap[t]) => R.idx = -1 /\ R.data = conv
          /\ ~IsResetter(heap[t]) => R.data = heap[t].data \o conv]_vars

\* C30 amended: the same for a target other than the source's own sequence,
\* the cursor of a target that is no Resetter staying where it was; with the
\* source's own sequence, a Resetter, as target the source is emptied before
\* the drain, the result is empty and its cursor, moved by the drain, is at 0.
C30_IntoResetsOtherTarget ==
  [][ret'.op = "into" =>
       LET src == impls[ret'.self].item
           t == ret'.arg
           R == heap'[t]
           conv == Converted(ret'.f, Rest(heap[src].data, heap[src].idx))
       IN /\ impls'[ret'.out].item = t
          /\ (t # src /\ IsResetter(heap[t])) =>
               R.idx = -1 /\ R.data = conv /\ Traversal(R) = conv
          /\ (t # src /\ ~IsResetter(heap[t])) =>
               R.idx = heap[t].idx /\ R.data = heap[t].data \o conv
          /\ (t = src /\ IsResetter(heap[t])) =>
               R.idx = 0 /\ R.data = <<>>]_vars

\* witness of C30: into has filled a Resetter target whose cursor had been
\* moved onto one of its elements; the target now holds the converted
\* element only and its cursor is at the start
C30_Witness ==
  /\ ret.op = "into" /\ ret.arg # impls[ret.self].item
  /\ heap[ret.arg].kind = "ints" /\ ret.preArg = 0 /\ ret.pre = -1
  /\ Item(ret.self).data = <<"1">>
  /\ heap[ret.arg].data = <<1>> /\ heap[ret.arg].idx = -1

\* the call of goroutine t has returned or panicked
Returned(t) == calls[t].pc = "done"

\* C25: two Next calls made on one IterStrings without synchronisation can
\* both return the same element, leave an element that neither returns, or
\* read the slice outside [0, size). Stated as: a call that returned and
\* ran alone, no other call in flight at any time during it, did what the
\* sequential Next does from the cursor it found: it read index cursor + 1,
\* inside the slice, and returned that element, or none when there is none;
\* the witness is the state that two overlapping calls reach.
C25_CallAloneIsSequential ==
  \A t \in Threads :
    (Returned(t) /\ ~calls[t].overlap) =>
      LET r == Next([heap[1] EXCEPT !.idx = calls[t].pre])
      IN /\ ~calls[t].oob
         /\ calls[t].at = calls[t].pre + 1
         /\ calls[t].more = r.more
         /\ calls[t].val = r.v

\* witness of C25: on a container of two elements, each goroutine has made
\* one call; the calls overlapped, both returned the element at index 1 and
\* neither returned the element at index 0
C25_Witness ==
  /\ Len(heap[1].data) = 2
  /\ \A t \in Threads :
       /\ Returned(t) /\ ~calls[t].again /\ calls[t].overlap
       /\ calls[t].more /\ calls[t].at = 1

\* an overlapping call has read the slice outside [0, size)
C25_ReadOutOfRange ==
  \E t \in Threads : Returned(t) /\ calls[t].oob /\ calls[t].overlap
                      /\ ~(0 <= calls[t].at /\ calls[t].at < heap[1].size)

\* the combinators that build a sequence out of the receiver's elements
Transforming == {"filter", "map", "every", "or"}

\* C31: once Next or Enumerate of a reference container has returned no
\* element, the call that follows it, with no Add, Rewind or Reset between,
\* returns none either and reads nothing outside the backing list; so a
\* transforming combinator (filter, map, or, every) called on a facade on
\* which one has been called before returns an empty sequence.
C31_ConsumedStaysConsumed ==
  [][/\ (ret.op \in {"next", "enumerate"} /\ ~ret.more
          /\ ret'.op \in {"next", "enumerate"}) =>
            /\ ~ret'.more /\ ret'.val = Nil
            /\ heap'[1].idx > heap[1].idx
     /\ (ret'.op \in {"next", "enumerate"} /\ ret'.more) =>
            /\ 0 <= heap'[1].idx /\ heap'[1].idx < Len(heap'[1].data)
            /\ heap'[1].idx < heap'[1].size
     /\ (Len(impls) >= 2 /\ ret'.op \in Transforming) =>
            /\ heap'[impls'[ret'.out].item].data = <<>>
            /\ ret'.pre >= Len(heap[1].data)
            /\ ret'.out = Len(impls) + 1]_vars

\* witness of C31: a second combinator has returned an empty sequence on a
\* facade whose first combinator had returned two elements
C31_Witness ==
  /\ Len(impls) = 3 /\ ret.op = "filter" /\ ret.out = 3 /\ ret.self = 1
  /\ Len(heap[1].data) = 2
  /\ Len(Item(2).data) = 2
  /\ Item(3).data = <<>>

\* C32 as stated: when zip(A, B) returns and A and B differ in size, the
\* longer one has had exactly min(size(A), size(B)) elements visited: none
\* beyond those paired.
C32_ZipVisitsOnlyPaired ==
  (ret.op = "zip" /\ Len(Item(ret.self).data) # Len(heap[ret.arg].data)) =>
    LET A == Item(ret.self)
        B == heap[ret.arg]
        m == Min(Len(A.data), Len(B.data))
    IN IF Len(A.data) > Len(B.data) THEN A.idx + 1 = m ELSE B.idx + 1 = m

\* C32 amended: zip asks both sources for an element in every round, the
\* last one included. With m the smaller of the two numbers of elements not
\* yet visited, zip returns m Pairs and has moved each cursor by m + 1: the
\* source with more elements left has had m + 1 of them visited, the last
\* of which is in no Pair.
C32_ZipVisitsOneMore ==
  (ret.op = "zip" /\ ret.arg # impls[ret.self].item) =>
    LET A == Item(ret.self)
        B == heap[ret.arg]
        TA == Rest(A.data, ret.pre)
        TB == Rest(B.data, ret.preArg)
        m == Min(Len(TA), Len(TB))
    IN /\ Len(Item(ret.out).data) = m
       /\ A.idx = ret.pre + m + 1
       /\ B.idx = ret.preArg + m + 1
       /\ Len(TA) > m => A.idx < Len(A.data)
       /\ Len(TB) > m => B.idx < Len(B.data)

\* witness of C32: zip of one element with two has returned one Pair; the
\* cursor of the longer source is on its second element, which is in no Pair
C32_Witness ==
  /\ ret.op = "zip" /\ ret.arg # impls[ret.self].item
  /\ ret.pre = -1 /\ ret.preArg = -1
  /\ Len(Item(ret.self).data) = 1 /\ Len(heap[ret.arg].data) = 2
  /\ heap[ret.arg].idx = 1
  /\ Len(Item(ret.out).data) = 1

\* a call is in flight or has returned, and its frame
InFlight == calls # <<>>
Frame == calls[1]
HasReturned == InFlight /\ Frame.pc = "returned"

\* the call takes a second sequence and was given the receiver's own
SelfPassed == Frame.op \in {"chain", "zip", "into", "from"} /\ Frame.other = Frame.src

\* into given the receiver's own sequence, which is no Resetter
MayRunOn == SelfPassed /\ Frame.op = "into" /\ ~IsResetter(heap[Frame.src])

\* C33 as stated, its bound: a call makes at most n + 1 advances when it
\* is Advance(n) or Nth(n), and at most size + 1 advances on each source
\* otherwise.
C33_AdvancesWithinBound ==
  InFlight =>
    \A k \in 1..Len(Frame.adv) :
      Frame.adv[k] <= IF Frame.op \in {"advance", "nth"} THEN Frame.n + 1
                      ELSE Frame.size0[k] + 1

\* C33 amended: every call whose second sequence, if it takes one, is not
\* the receiver's own returns, after at most max(n, 0) advances for
\* Advance(n), max(n, 0) + 1 for Nth(n), and size + 1 advances on each
\* source for the others. chain and zip given the receiver's own sequence
\* return after at most size + 2 advances on it, from and into with a
\* Resetter target after at most size + 1; into given the receiver's own
\* sequence that is no Resetter is the one call that need not return.
C33_ReturnsWithinBound ==
  /\ []((InFlight /\ ~MayRunOn) =>
          \A k \in 1..Len(Frame.adv) :
            Frame.adv[k] <=
              CASE Frame.op = "advance" -> IF Frame.n > 0 THEN Frame.n ELSE 0
                [] Frame.op = "nth" -> IF Frame.n > 0 THEN Frame.n + 1 ELSE 1
                [] SelfPassed /\ Frame.op \in {"chain", "zip"} -> Frame.size0[k] + 2
                [] OTHER -> Frame.size0[k] + 1)
  /\ (InFlight /\ ~MayRunOn) ~> HasReturned

\* witness of C33: chain, given another sequence, has returned after
\* size + 1 advances on each of the two sources, three on the receiver's
C33_Witness ==
  /\ HasReturned /\ Frame.op = "chain" /\ ~SelfPassed
  /\ Frame.size0[Frame.src] = 2 /\ Frame.adv[Frame.src] = 3
  /\ Frame.size0[Frame.other] = 1 /\ Frame.adv[Frame.other] = 2
  /\ Len(heap[Frame.dst].data) = 3

\* into, given the receiver's own sequence, no Resetter, is cut in its loop
\* with the sequence grown to the cap: every element it reads it appends
C33_IntoOwnSequenceRuns ==
  /\ InFlight /\ Frame.op = "into" /\ SelfPassed /\ Frame.pc = "loop"
  /\ heap[Frame.src].kind = "bare"
  /\ Len(heap[Frame.src].data) = 2 * MaxLen
  /\ HasNext(heap[Frame.src])

\* the size field of every reference container is the length of its slice
SizeIsLen == \A i \in RefObjs : heap[i].size = Len(heap[i].data)

\* C34: in IterStrings and pairs the size field equals the length of the
\* backing slice in every state the constructors and the calls of Add,
\* Next, Enumerate, Rewind, Reset and New lead to; the container New
\* returns is empty with its cursor at -1, New leaves its receiver as it
\* was, and an Add on one container changes no other one.
C34_SizeIsLenAndNewIsApart ==
  /\ SizeIsLen
  /\ [][/\ SizeIsLen'
        /\ ret'.op = "new" =>
             /\ Len(heap') = Len(heap) + 1
             /\ heap'[Len(heap')].idx = -1
             /\ heap'[Len(heap')].data = <<>>
             /\ heap'[Len(heap')].size = 0
             /\ heap'[Len(heap')].kind = heap[ret'.arg].kind
             /\ \A k \in 1..Len(heap) : heap'[k] = heap[k]
        /\ ret'.op = "add" =>
             /\ heap'[ret'.arg].data = Append(heap[ret'.arg].data, ret'.val[1])
             /\ heap'[ret'.arg].size = heap[ret'.arg].size + 1
             /\ heap'[ret'.arg].idx = heap[ret'.arg].idx
             /\ \A k \in 1..Len(heap) : k # ret'.arg => heap'[k] = heap[k]]_vars

\* witness of C34: the container New returned for a container that holds
\* an element and has been moved has got an element of its own
C34_Witness ==
  /\ ret.op = "add" /\ ret.arg = 2 /\ Len(heap) >= 2
  /\ Len(heap[1].data) = 1 /\ heap[1].idx = 0 /\ heap[1].size = 1
  /\ Len(heap[2].data) = 1 /\ heap[2].idx = -1 /\ heap[2].size = 1
  /\ heap[2].data # heap[1].data

====
